---- MODULE Spec2Model ----
(***************************************************************************)
(* The split/restore engine of file-splitter (src/src/lib.rs).             *)
(*                                                                         *)
(* One behaviour is one run of the command line tool on one source file:   *)
(* split_single_file, then the manifest is parsed back, the environment    *)
(* may damage what is on disk, then restore_single_file.                   *)
(*                                                                         *)
(* Files are sequences of bytes (naturals below 256).  A digest is         *)
(* modelled as an injective function of the bytes it was computed over     *)
(* (SHA-256 taken as collision free).                                      *)
(*                                                                         *)
(* The last part of the model is the window of src/src/main.rs: the UI     *)
(* thread, the worker thread it starts for an operation and the channel    *)
(* between them.                                                           *)
(***************************************************************************)
EXTENDS Integers, Sequences, FiniteSets, TLC

\* ---------------------------------------------------------------- bounds
\* Small source files: every byte string over ByteVals of length 0..MaxFileLen.
MaxFileLen == 3
\* Small chunk limits: 0..MaxLimit.
MaxLimit == 4

\* Number of split calls made on the same source file and output root.
MaxSplitCalls == 2
\* Operations started from the window, and notifications one operation sends.
MaxOps == 2
MaxNotes == 2
\* Size of the file that is split into more chunks than three digits count.
ManyChunks == 1001

\* ------------------------------------------------------- program constants
\* Capacity of std::io::BufReader::new / BufWriter::new.
BufCap == 8192
\* Block size of calculate_checksum's read loop.
ChecksumBlock == 8192
\* Length of the fixed gzip member header written by GzEncoder.
GzHeaderLen == 10
\* Length of the gzip trailer (CRC32 and ISIZE).
GzTrailerLen == 8
\* The compressor behind GzEncoder at Compression::default() (level 6).
\* The window a match may reach back into, and the match lengths.
LzDictSize == 32768
MinMatchLen == 3
MaxMatchLen == 258
\* The buffer of pending literals and matches, in bytes.
LzCodeBufSize == 65536
\* Turns of the hash chain search: for a match shorter than LongMatchLen
\* so far, and for a longer one.
MaxProbesShort == 44
MaxProbesLong == 12
LongMatchLen == 32
\* A match of MinMatchLen bytes this far back is not used.
FarMatchDist == 8192
\* A match of this length is taken at once, without looking one byte ahead.
EagerMatchLen == 128
\* Blocks of fewer bytes use the fixed codes.
StaticBlockBytes == 48
\* Blocks of more bytes are stored when coding them saves nothing.
StoredBlockBytes == 32
\* A block of more bytes is ended early when its codes take as much room.
FatBlockBytes == 31744
\* The longest zero-terminated gzip header field that GzDecoder reads,
\* without its terminator.
MaxHeaderBuf == 65535

ByteVals == {0, 1}

Min(a, b) == IF a < b THEN a ELSE b

\* Body applied to a value that is computed once.
With(v, Body(_)) == Body(v)

\* ------------------------------------------------------------ the inputs
RECURSIVE SeqsUpTo(_)
SeqsUpTo(n) ==
    IF n = 0 THEN {<<>>}
    ELSE LET shorter == SeqsUpTo(n - 1)
         IN  shorter \cup {Append(s, b) : s \in {t \in shorter : Len(t) = n - 1}, b \in ByteVals}

SmallFiles == SeqsUpTo(MaxFileLen)
SmallLimits == 0..MaxLimit

\* Files around the capacity of the buffered reader.
LargeFile(n) == [i \in 1..n |-> i % 2]
LargeFiles == {LargeFile(BufCap), LargeFile(BufCap + 1), LargeFile(BufCap + MaxFileLen)}
\* Limits around that capacity: a divisor of it, a non-divisor below it,
\* the capacity itself and one above it.
LargeLimits == {BufCap \div 2, BufCap - 1, BufCap, BufCap + 1}

\* A run of one byte value, which the compressor encodes as a match, and a
\* file of distinct bytes, which it stores as it is.
RunFile == [i \in 1..(MaxFileLen + 2) |-> 0]
DistinctFile == [i \in 1..(StoredBlockBytes + 1) |-> i - 1]
\* Inputs whose compressed chunks hold a match, a stored block and a block
\* with its own Huffman codes.
RepeatInputs ==
    {<<RunFile, MaxLimit>>, <<RunFile, BufCap>>, <<DistinctFile, BufCap>>,
     <<LargeFile(BufCap + 1), BufCap \div 2>>}

\* A file longer than the reader's buffer whose size is a multiple of a
\* limit that is below the capacity and does not divide it: two chunks of
\* BufCap / 2 + 1 bytes.  The reader hands out what is left of its buffer,
\* a short read in the middle of the file.
MidFileInputs == {<<LargeFile(2 * (BufCap \div 2 + 1)), BufCap \div 2 + 1>>}

\* (source content, size_limit) pairs.
Inputs ==
    (SmallFiles \X (SmallLimits \cup LargeLimits))
        \cup (LargeFiles \X ({0} \cup LargeLimits))
        \cup RepeatInputs
        \cup MidFileInputs

\* The later split calls that are followed by a restore, as (source content,
\* size_limit of the call before, size_limit): calls that fail on a file
\* that was split before, and calls that succeed with another limit.
StaleInputs ==
    {<<LargeFile(BufCap + 1), BufCap \div 2, BufCap - 1>>,
     <<LargeFile(BufCap + 1), BufCap, BufCap - 1>>,
     <<RunFile, MaxLimit, BufCap>>,
     <<RunFile, BufCap, MaxLimit>>}

\* The values of `compress` that are explored for an input: both where the
\* chunks hold at most MaxFileLen bytes and on RepeatInputs, uncompressed
\* splits alone on the other large inputs.
CompressChoices(file, limit) ==
    IF Min(Len(file), limit) <= MaxFileLen \/ <<file, limit>> \in RepeatInputs
    THEN BOOLEAN ELSE {FALSE}

\* A file of ManyChunks bytes split one byte per chunk, next to an empty
\* and a two-byte file, and a file of BufCap + 1 bytes split three bytes
\* per chunk: its size is a multiple of the limit, the limit does not
\* divide the capacity of the reader.
ManyChunkInputs ==
    {<<LargeFile(n), 1>> : n \in {0, 2, ManyChunks}} \cup {<<LargeFile(BufCap + 1), 3>>}

\* --------------------------------------------------------------- Option
None == <<>>
Some(x) == <<x>>
IsSome(o) == Len(o) = 1
Unwrap(o) == o[1]

\* ------------------------------------------------------------- checksums
\* Sha256 state: the bytes absorbed so far.
HasherNew == <<>>
HasherUpdate(h, bytes) == h \o bytes
HasherFinalizeHex(h) == [sha256 |-> h]

calculate_buffer_checksum(buffer) ==
    HasherFinalizeHex(HasherUpdate(HasherNew, buffer))

\* The read loop of calculate_checksum: blocks of ChecksumBlock bytes until
\* a read returns 0.
RECURSIVE ChecksumLoop(_, _, _)
ChecksumLoop(file, pos, hasher) ==
    LET bytes_read == Min(ChecksumBlock, Len(file) - pos)
    IN  IF bytes_read = 0 THEN hasher
        ELSE ChecksumLoop(file, pos + bytes_read,
                          HasherUpdate(hasher, SubSeq(file, pos + 1, pos + bytes_read)))

calculate_checksum(file) == HasherFinalizeHex(ChecksumLoop(file, 0, HasherNew))

\* ------------------------------------------------------------------ gzip
\* ID1 ID2 CM FLG MTIME(4) XFL OS, as GzEncoder writes them.
GzHeader == <<31, 139, 8, 0, 0, 0, 0, 0, 0, 255>>

Le32(x) == <<x % 256, (x \div 256) % 256, (x \div 65536) % 256, (x \div 16777216) % 256>>

\* Bit k of a number, and the exclusive or of two four-bit numbers and of
\* two bytes.
Bit(a, k) == (a \div 2^k) % 2
XorNibble(a, b) ==
    ((Bit(a, 0) + Bit(b, 0)) % 2) + 2 * ((Bit(a, 1) + Bit(b, 1)) % 2)
    + 4 * ((Bit(a, 2) + Bit(b, 2)) % 2) + 8 * ((Bit(a, 3) + Bit(b, 3)) % 2)
XorTable ==
    [i \in 1..65536 |->
        XorNibble(((i - 1) \div 256) % 16, (i - 1) % 16)
            + 16 * XorNibble((i - 1) \div 4096, ((i - 1) % 256) \div 16)] \o <<>>
XorByte(a, b) == XorTable[256 * a + b + 1]

\* A 32-bit word is kept as its four bytes, least significant first.
Xor32(v, w) ==
    <<XorByte(v[1], w[1]), XorByte(v[2], w[2]), XorByte(v[3], w[3]), XorByte(v[4], w[4])>>
ShiftRight1(w) ==
    <<(w[1] \div 2) + 128 * (w[2] % 2), (w[2] \div 2) + 128 * (w[3] % 2),
      (w[3] \div 2) + 128 * (w[4] % 2), w[4] \div 2>>
Ones32 == <<255, 255, 255, 255>>
\* The reflected CRC-32 polynomial 0xEDB88320.
CrcPoly == <<32, 131, 184, 237>>

\* n steps of the CRC shift register.
RECURSIVE CrcShift(_, _)
CrcShift(w, n) ==
    IF n = 0 THEN w
    ELSE IF w[1] % 2 = 1 THEN CrcShift(Xor32(ShiftRight1(w), CrcPoly), n - 1)
    ELSE CrcShift(ShiftRight1(w), n - 1)

\* The table of the byte-wise CRC: entry b + 1 is the register after the
\* byte b has gone through it.
CrcTable == [b \in 1..256 |-> CrcShift(<<b - 1, 0, 0, 0>>, 8)] \o <<>>

\* One byte of data into the register.
CrcByte(w, b) ==
    With(CrcTable[XorByte(w[1], b) + 1], LAMBDA t :
        <<XorByte(w[2], t[1]), XorByte(w[3], t[2]), XorByte(w[4], t[3]), t[4]>>)

\* The n bytes of s from s[lo] on into the register, a quarter of them at a
\* time: each quarter starts from the register the quarter before leaves.
RECURSIVE CrcRange(_, _, _, _)
CrcRange(w, s, lo, n) ==
    IF n <= 1 THEN IF n = 0 THEN w ELSE CrcByte(w, s[lo])
    ELSE CHOOSE r \in
             {CrcRange(w3, s, lo + n - (n + 3) \div 4, (n + 3) \div 4) :
                 w3 \in {CrcRange(w2, s, lo + n \div 4 + (n + 1) \div 4, (n + 2) \div 4) :
                     w2 \in {CrcRange(w1, s, lo + n \div 4, (n + 1) \div 4) :
                         w1 \in {CrcRange(w, s, lo, n \div 4)}}}} : TRUE

\* The member's CRC-32 (crc32fast), as the four bytes of the trailer, least
\* significant first.
Crc32(data) == Xor32(CrcRange(Ones32, data, 1, Len(data)), Ones32)

\* Base values and numbers of extra bits of the length symbols 257..285
\* and of the distance symbols 0..29 of deflate.
LenBase == <<3, 4, 5, 6, 7, 8, 9, 10, 11, 13, 15, 17, 19, 23, 27, 31, 35, 43, 51, 59,
             67, 83, 99, 115, 131, 163, 195, 227, 258>>
LenExtra == <<0, 0, 0, 0, 0, 0, 0, 0, 1, 1, 1, 1, 2, 2, 2, 2, 3, 3, 3, 3,
              4, 4, 4, 4, 5, 5, 5, 5, 0>>
DistBase == <<1, 2, 3, 4, 5, 7, 9, 13, 17, 25, 33, 49, 65, 97, 129, 193, 257, 385,
              513, 769, 1025, 1537, 2049, 3073, 4097, 6145, 8193, 12289, 16385, 24577>>
DistExtra == <<0, 0, 0, 0, 1, 1, 2, 2, 3, 3, 4, 4, 5, 5, 6, 6, 7, 7, 8, 8,
               9, 9, 10, 10, 11, 11, 12, 12, 13, 13>>
\* The order in which a dynamic block stores the code length code lengths.
ClOrder == <<16, 17, 18, 0, 8, 7, 9, 6, 10, 5, 11, 4, 12, 3, 13, 2, 14, 1, 15>>

\* An n-bit field, least significant bit first, and an n-bit Huffman code,
\* most significant bit first, as they go into the stream.
FieldBits(v, n) == [k \in 1..n |-> (v \div 2^(k - 1)) % 2]
CodeBits(code, n) == [k \in 1..n |-> (code \div 2^(n - k)) % 2]

\* Bits to bytes, each byte filled from its least significant bit, the
\* last byte padded with zero bits.
PackBits(bits) ==
    LET bit(i) == IF i <= Len(bits) THEN bits[i] ELSE 0
    IN  [k \in 1..((Len(bits) + 7) \div 8) |->
            bit(8 * k - 7) + 2 * bit(8 * k - 6) + 4 * bit(8 * k - 5) + 8 * bit(8 * k - 4)
            + 16 * bit(8 * k - 3) + 32 * bit(8 * k - 2) + 64 * bit(8 * k - 1) + 128 * bit(8 * k)]

\* ---- deflate: the compressor behind GzEncoder at Compression::default()
\* (level 6: hash chains, lazy matching, one Huffman-coded or stored block
\* per run of the code buffer).
\* A loop `loop` run for at most n turns from the state st.
RECURSIVE Iterate(_, _, _, _)

\* -- Huffman code lengths (optimize_table)
\* The place (from 0) of the used symbol s in the order of ascending count,
\* symbols of equal count in symbol order (tuple index = symbol + 1).
Ranks(freq) ==
    [s \in 1..Len(freq) |->
        IF freq[s] = 0 THEN -1
        ELSE Cardinality({t \in 1..Len(freq) :
                             freq[t] # 0
                             /\ (freq[t] < freq[s] \/ (freq[t] = freq[s] /\ t < s))})] \o <<>>
\* The counts of the used symbols in that order.
SortedKeys(freq, ranks, n) ==
    [k \in 1..n |-> freq[CHOOSE s \in 1..Len(freq) : ranks[s] = k - 1]] \o <<>>

\* calculate_minimum_redundancy works in place on the sorted counts A (here
\* A[i + 1] is the code's A[i]).  First loop: the Huffman tree is built, a
\* turn takes the two smallest of the next leaf and the next internal node.
MrTakeFirst(n, st) ==
    IF st.leaf >= n \/ st.A[st.root + 1] < st.A[st.leaf + 1]
    THEN [st EXCEPT !.A = [[st.A EXCEPT ![st.next + 1] = st.A[st.root + 1]]
                              EXCEPT ![st.root + 1] = st.next],
                    !.root = @ + 1]
    ELSE [st EXCEPT !.A = [st.A EXCEPT ![st.next + 1] = st.A[st.leaf + 1]],
                    !.leaf = @ + 1]
MrTakeSecond(n, st) ==
    IF st.leaf >= n \/ (st.root < st.next /\ st.A[st.root + 1] < st.A[st.leaf + 1])
    THEN [st EXCEPT !.A = [[st.A EXCEPT ![st.next + 1] = (@ + st.A[st.root + 1]) % 65536]
                              EXCEPT ![st.root + 1] = st.next],
                    !.root = @ + 1,
                    !.next = @ + 1]
    ELSE [st EXCEPT !.A = [st.A EXCEPT ![st.next + 1] = (@ + st.A[st.leaf + 1]) % 65536],
                    !.leaf = @ + 1,
                    !.next = @ + 1]

\* Second loop: parent pointers become depths of the internal nodes.
MrDepthStep(st) ==
    [A |-> [st.A EXCEPT ![st.next + 1] = st.A[st.A[st.next + 1] + 1] + 1],
     next |-> st.next - 1]

\* Third loop: the leaves get their depths, the deepest last.  `inner` is
\* the depth at which internal nodes are being counted.
MrLengthStep(st) ==
    IF st.inner
    THEN IF st.root >= 0 /\ st.A[st.root + 1] = st.dpth
         THEN [st EXCEPT !.used = @ + 1, !.root = @ - 1]
         ELSE [st EXCEPT !.inner = FALSE]
    ELSE IF st.avbl > st.used
         THEN [st EXCEPT !.A = [st.A EXCEPT ![st.next + 1] = st.dpth],
                         !.next = @ - 1, !.avbl = @ - 1]
         ELSE [st EXCEPT !.avbl = 2 * st.used, !.dpth = @ + 1, !.used = 0, !.inner = TRUE]

\* The code lengths of n symbols with the ascending counts A: the three
\* loops one after the other.
MinimumRedundancy(A, n) ==
    IF n = 0 THEN <<>>
    ELSE IF n = 1 THEN <<1>>
    ELSE Iterate("mr_length", n,
                 [A |-> Iterate("mr_depth", n,
                                [A |-> [Iterate("mr_build", n,
                                                [A |-> [A EXCEPT ![1] = (A[1] + A[2]) % 65536],
                                                 root |-> 0, leaf |-> 2, next |-> 1],
                                                n).A EXCEPT ![n - 1] = 0],
                                 next |-> n - 3],
                                n).A,
                  avbl |-> 1, used |-> 0, dpth |-> 0, root |-> n - 2, next |-> n - 1,
                  inner |-> TRUE],
                 4 * n + 64).A

\* How many codes have each length 1..32.
NumCodes(lens) ==
    [i \in 1..32 |-> Cardinality({k \in 1..Len(lens) : lens[k] = i})] \o <<>>

RECURSIVE SumFrom(_, _)
SumFrom(nc, i) == IF i > Len(nc) THEN 0 ELSE nc[i] + SumFrom(nc, i + 1)

\* The sum over the lengths i..limit of num_codes[i] << (limit - i).
RECURSIVE KraftTotal(_, _, _)
KraftTotal(nc, limit, i) ==
    IF i > limit THEN 0 ELSE nc[i] * 2^(limit - i) + KraftTotal(nc, limit, i + 1)

\* One turn of the loop of enforce_max_code_size: a code of the longest
\* length goes, and the longest shorter code is made one bit longer.
EnforceStep(limit, nc) ==
    LET dec == [nc EXCEPT ![limit] = @ - 1]
        shorter == {i \in 1..(limit - 1) : dec[i] # 0}
    IN  IF shorter = {} THEN dec
        ELSE LET i == CHOOSE j \in shorter : \A k \in shorter : k <= j
             IN  [[dec EXCEPT ![i] = @ - 1] EXCEPT ![i + 1] = @ + 2]

\* enforce_max_code_size: lengths above the limit are cut to it and the
\* code is made complete again.
EnforceMaxCodeSize(nc, n, limit) ==
    IF n <= 1 THEN nc
    ELSE With([i \in 1..limit |-> IF i < limit THEN nc[i] ELSE SumFrom(nc, limit)] \o <<>>,
              LAMBDA folded :
                  Iterate("enforce", limit, folded, KraftTotal(folded, limit, 1) - 2^limit))

\* The length of the code that is `above` places from the most frequent
\* symbol: the shortest codes go to the most frequent symbols.
RECURSIVE SizeFor(_, _, _)
SizeFor(nc, above, i) ==
    IF above < nc[i] THEN i ELSE SizeFor(nc, above - nc[i], i + 1)

\* optimize_table: the code lengths of the symbols counted in freq, none
\* longer than limit.
CodeSizes(freq, limit) ==
    LET n == Cardinality({s \in 1..Len(freq) : freq[s] # 0})
    IN  With(Ranks(freq), LAMBDA ranks :
            With(EnforceMaxCodeSize(
                     NumCodes(MinimumRedundancy(SortedKeys(freq, ranks, n), n)), n, limit),
                 LAMBDA nc :
                     [s \in 1..Len(freq) |->
                         IF freq[s] = 0 THEN 0 ELSE SizeFor(nc, n - 1 - ranks[s], 1)] \o <<>>))

\* The canonical codes of the code lengths `sizes`: the first code of each
\* length, then the symbols of a length in symbol order.
RECURSIVE FirstCode(_, _)
FirstCode(counts, i) ==
    IF i <= 1 THEN 0 ELSE 2 * (FirstCode(counts, i - 1) + counts[i - 1])
CanonicalCodes(sizes) ==
    LET counts == NumCodes(sizes)
    IN  [s \in 1..Len(sizes) |->
            IF sizes[s] = 0 THEN 0
            ELSE FirstCode(counts, sizes[s])
                     + Cardinality({t \in 1..(s - 1) : sizes[t] = sizes[s]})] \o <<>>

\* The code lengths and codes of one block.
HuffCodes(litSizes, distSizes) ==
    [ls |-> litSizes, lc |-> CanonicalCodes(litSizes),
     ds |-> distSizes, dc |-> CanonicalCodes(distSizes)]
\* Code lengths of the fixed Huffman codes of deflate: literal/length
\* symbols 0..287 and distance symbols 0..31 (tuple index = symbol + 1).
FixedLitLens ==
    [s \in 1..288 |-> IF s <= 144 THEN 8 ELSE IF s <= 256 THEN 9 ELSE IF s <= 280 THEN 7 ELSE 8]
        \o <<>>
FixedDistLens == [s \in 1..32 |-> 5] \o <<>>
FixedCodes == HuffCodes(FixedLitLens, FixedDistLens)

\* -- the pending codes of a block: <<0, 0, byte>> for a literal and
\* <<length, distance, 0>> for a match.
LenSym(len) ==
    IF len = MaxMatchLen THEN 285
    ELSE 256 + Cardinality({i \in 1..28 : LenBase[i] <= len})
DistSym(dist) == Cardinality({i \in 1..30 : DistBase[i] <= dist}) - 1

\* compress_lz_codes: the bits of one pending code with the codes t.
SymbolBits(t, c) ==
    IF c[1] = 0 THEN CodeBits(t.lc[c[3] + 1], t.ls[c[3] + 1])
    ELSE CodeBits(t.lc[LenSym(c[1]) + 1], t.ls[LenSym(c[1]) + 1])
         \o FieldBits(c[1] - LenBase[LenSym(c[1]) - 256], LenExtra[LenSym(c[1]) - 256])
         \o CodeBits(t.dc[DistSym(c[2]) + 1], t.ds[DistSym(c[2]) + 1])
         \o FieldBits(c[2] - DistBase[DistSym(c[2]) + 1], DistExtra[DistSym(c[2]) + 1])

RECURSIVE LzBits(_, _, _, _)
LzBits(t, codes, lo, hi) ==
    IF lo > hi THEN <<>>
    ELSE IF lo = hi THEN SymbolBits(t, codes[lo])
    ELSE LzBits(t, codes, lo, (lo + hi) \div 2) \o LzBits(t, codes, (lo + hi) \div 2 + 1, hi)

\* The pending codes and the end-of-block code.
BlockBody(t, codes) ==
    LzBits(t, codes, 1, Len(codes)) \o CodeBits(t.lc[257], t.ls[257])

\* How often each literal/length symbol and each distance symbol occurs in
\* the pending codes; the end-of-block symbol counts once.
LitFreq(codes) ==
    [s \in 1..288 |->
        IF s = 257 THEN 1
        ELSE Cardinality({i \in 1..Len(codes) :
                             (IF codes[i][1] = 0 THEN codes[i][3] ELSE LenSym(codes[i][1]))
                                 = s - 1})] \o <<>>
DistFreq(codes) ==
    [s \in 1..32 |->
        Cardinality({i \in 1..Len(codes) : codes[i][1] # 0 /\ DistSym(codes[i][2]) = s - 1})]
        \o <<>>

\* -- start_dynamic_block: the header of a block with its own codes.
\* The number of code lengths sent: up to the last used symbol, at least
\* `least`, at most `most`.
NumSent(sizes, least, most) ==
    LET used == {k \in (least + 1)..most : sizes[k] # 0}
    IN  IF used = {} THEN least ELSE CHOOSE k \in used : \A j \in used : j <= k

\* The run-length coding of the code lengths: the pending repeats of the
\* previous length, and the pending zeros, go out as <<symbol, extra>>.
RlePrevCodeSize(st) ==
    IF st.rep = 0 THEN st
    ELSE IF st.rep < 3
         THEN [st EXCEPT !.packed = @ \o [k \in 1..st.rep |-> <<st.prev, 0>>], !.rep = 0]
    ELSE [st EXCEPT !.packed = Append(@, <<16, st.rep - 3>>), !.rep = 0]
RleZeroCodeSize(st) ==
    IF st.z = 0 THEN st
    ELSE IF st.z < 3
         THEN [st EXCEPT !.packed = @ \o [k \in 1..st.z |-> <<0, 0>>], !.z = 0]
    ELSE IF st.z <= 10 THEN [st EXCEPT !.packed = Append(@, <<17, st.z - 3>>), !.z = 0]
    ELSE [st EXCEPT !.packed = Append(@, <<18, st.z - 11>>), !.z = 0]

\* The code length cs is counted: a zero joins the run of zeros, the
\* previous length again joins its repeats, another length goes out itself.
RleCount(st, cs) ==
    IF cs = 0 THEN [RlePrevCodeSize(st) EXCEPT !.z = @ + 1]
    ELSE IF cs # st.prev
         THEN [RlePrevCodeSize(RleZeroCodeSize(st)) EXCEPT !.packed = Append(@, <<cs, 0>>)]
    ELSE [RleZeroCodeSize(st) EXCEPT !.rep = @ + 1]
\* A run of 138 zeros and a run of 6 repeats go out at once.
RleFull(st) ==
    IF st.z = 138 THEN RleZeroCodeSize(st)
    ELSE IF st.rep = 6 THEN RlePrevCodeSize(st)
    ELSE st
\* One code length of the loop.
RleStep(sizes, st) ==
    [RleFull(RleCount(st, sizes[st.i])) EXCEPT !.prev = sizes[st.i], !.i = @ + 1]
PackedCodeSizes(sizes) ==
    With(Iterate("rle", sizes, [i |-> 1, packed |-> <<>>, z |-> 0, rep |-> 0, prev |-> 255],
                 Len(sizes)),
         LAMBDA st :
             IF st.rep # 0 THEN RlePrevCodeSize(st).packed ELSE RleZeroCodeSize(st).packed)

\* How often each symbol of the code length code occurs.
PackedFreq(packed) ==
    [s \in 1..19 |-> Cardinality({i \in 1..Len(packed) : packed[i][1] = s - 1})] \o <<>>

\* The number of code length code lengths sent, in the order ClOrder.
NumBitLengths(clSizes) ==
    LET used == {k \in 1..19 : clSizes[ClOrder[k] + 1] # 0}
    IN  IF used = {} THEN 4
        ELSE LET last == CHOOSE k \in used : \A j \in used : j <= k
             IN  IF last < 4 THEN 4 ELSE last

RECURSIVE ClSizeBits(_, _, _)
ClSizeBits(clSizes, k, n) ==
    IF k > n THEN <<>>
    ELSE FieldBits(clSizes[ClOrder[k] + 1], 3) \o ClSizeBits(clSizes, k + 1, n)

\* The packed code lengths as bits: the symbols 16, 17 and 18 of the code
\* length code have 2, 3 and 7 extra bits.
RECURSIVE PackedBits(_, _, _, _, _)
PackedBits(packed, clSizes, clCodes, lo, hi) ==
    IF lo > hi THEN <<>>
    ELSE IF lo = hi
         THEN CodeBits(clCodes[packed[lo][1] + 1], clSizes[packed[lo][1] + 1])
              \o FieldBits(packed[lo][2],
                           IF packed[lo][1] < 16 THEN 0 ELSE <<2, 3, 7>>[packed[lo][1] - 15])
    ELSE PackedBits(packed, clSizes, clCodes, lo, (lo + hi) \div 2)
         \o PackedBits(packed, clSizes, clCodes, (lo + hi) \div 2 + 1, hi)

DynamicBlockHeader(nl, nd, packed) ==
    With(CodeSizes(PackedFreq(packed), 7), LAMBDA clSizes :
        <<0, 1>> \o FieldBits(nl - 257, 5) \o FieldBits(nd - 1, 5)
            \o FieldBits(NumBitLengths(clSizes) - 4, 4)
            \o ClSizeBits(clSizes, 1, NumBitLengths(clSizes))
            \o PackedBits(packed, clSizes, CanonicalCodes(clSizes), 1, Len(packed)))
DynamicBlock(codes, litSizes, distSizes) ==
    LET nl == NumSent(litSizes, 257, 286)
        nd == NumSent(distSizes, 1, 30)
    IN  DynamicBlockHeader(nl, nd,
                           PackedCodeSizes(SubSeq(litSizes, 1, nl)
                                               \o SubSeq(distSizes, 1, nd)))
            \o BlockBody(HuffCodes(litSizes, distSizes), codes)

\* compress_block: the block type, the code lengths of a dynamic block, the
\* pending codes.
CompressBlock(codes, static) ==
    IF static THEN <<1, 0>> \o BlockBody(FixedCodes, codes)
    ELSE DynamicBlock(codes, CodeSizes(LitFreq(codes), 15), CodeSizes(DistFreq(codes), 15))

\* -- the hash chains
\* The 15-bit hash (b0 << 10) ^ (b1 << 5) ^ b2 of three bytes: its low byte,
\* and the seven bits above it.
HashOf(b0, b1, b2) ==
    XorByte(b2, (b1 * 32) % 256) + 256 * XorByte(b1 \div 8, (b0 * 4) % 128)
\* The hash of the three bytes at position i (positions count from 0).
HashAt(data, i) == HashOf(data[i + 1], data[i + 2], data[i + 3])

\* The last position in lo..hi whose three bytes have the hash h, -1 if
\* there is none.
LastWithHash(data, h, lo, hi) ==
    hi - (CHOOSE d \in 0..(hi - lo + 1) :
              /\ d = hi - lo + 1 \/ HashAt(data, hi - d) = h
              /\ \A e \in 0..(d - 1) : HashAt(data, hi - e) # h)

\* The number of bytes from c + lo that equal the bytes from p + lo, lo
\* included, when at most hi + 1 are compared: the first offset in lo..hi
\* at which the two differ, hi + 1 if there is none.
ProbeLen(data, c, p, lo, hi) ==
    CHOOSE k \in lo..(hi + 1) :
        /\ k = hi + 1 \/ data[c + k + 1] # data[p + k + 1]
        /\ \A e \in lo..(k - 1) : data[c + e + 1] = data[p + e + 1]

\* -- find_match: m = [data, pos, max_dist, max_len]; the state holds the
\* turns left, the probes made in this turn, the chain position and the
\* best match so far.
\* The candidate dist back is len bytes long.
ProbeFound(m, st, dist, len) ==
    IF len = m.max_len
    THEN [st EXCEPT !.dist = dist, !.len = len, !.done = TRUE]
    ELSE IF len > st.len
         THEN [st EXCEPT !.dist = dist, !.len = len, !.k = 0, !.cur = m.pos - dist]
    ELSE [st EXCEPT !.k = 0, !.cur = m.pos - dist]
\* The chain gives the candidate dist back.  Its bytes at the end of the
\* best match so far are compared, then its first two bytes, then all.
ProbeAt(m, st, dist) ==
    IF dist > m.max_dist THEN [st EXCEPT !.done = TRUE]
    ELSE IF m.data[m.pos - dist + st.len] # m.data[m.pos + st.len]
            \/ m.data[m.pos - dist + st.len + 1] # m.data[m.pos + st.len + 1]
         THEN [st EXCEPT !.k = (@ + 1) % 3, !.cur = m.pos - dist]
    ELSE IF dist = 0 THEN [st EXCEPT !.done = TRUE]
    ELSE IF m.data[m.pos - dist + 1] # m.data[m.pos + 1]
            \/ m.data[m.pos - dist + 2] # m.data[m.pos + 2]
         THEN [st EXCEPT !.k = 0, !.cur = m.pos - dist]
    ELSE ProbeFound(m, st, dist, ProbeLen(m.data, m.pos - dist, m.pos, 0, m.max_len - 1))
\* One probe: the next entry of the chain (dict.next), which is the
\* position entered last before st.cur under the same hash, as the 16 bits
\* the table keeps, and 0 if there is none.  A turn allows three probes;
\* the first one takes the turn.
ProbeStep(m, st) ==
    IF st.k = 0 /\ st.left = 1 THEN [st EXCEPT !.done = TRUE]
    ELSE With(LastWithHash(m.data, HashAt(m.data, st.cur), 0, st.cur - 1), LAMBDA last :
             IF last < 0 \/ last % 65536 = 0 THEN [st EXCEPT !.done = TRUE]
             ELSE ProbeAt(m, IF st.k = 0 THEN [st EXCEPT !.left = @ - 1] ELSE st,
                          (m.pos - (last % 65536) + 65536) % 65536))

\* The longest match found for the position m.pos, longer than len.
FindMatch(m, len) ==
    IF m.max_len <= len THEN [dist |-> 0, len |-> len]
    ELSE Iterate("probe", m,
                 [left |-> IF len >= LongMatchLen THEN MaxProbesLong ELSE MaxProbesShort,
                  k |-> 0, cur |-> m.pos, dist |-> 0, len |-> len, done |-> FALSE],
                 3 * MaxProbesShort)

\* -- compress_normal
\* The bytes the parser sees ahead of pos, and the window behind it.
Lookahead(data, pos) == Min(MaxMatchLen, Len(data) - pos)
DictSize(data, pos) == Min(pos, LzDictSize - Lookahead(data, pos))

\* record_literal, record_match: a code and its flag bit go into the
\* buffer (one flag byte every eight codes).
RecordCode(st, code, bytes, size) ==
    [st EXCEPT !.codes = Append(@, code),
               !.total_bytes = @ + bytes,
               !.code_position = @ + size + (IF st.num_flags_left = 1 THEN 1 ELSE 0),
               !.num_flags_left = IF @ = 1 THEN 8 ELSE @ - 1]
RecordLiteral(st, lit) == RecordCode(st, <<0, 0, lit>>, 1, 1)
RecordMatch(st, len, dist) == RecordCode(st, <<len, dist, 0>>, len, 3)

\* The match is kept back for one position.
SaveMatch(st, lit, cur) ==
    [st EXCEPT !.saved_lit = lit, !.saved_match_dist = cur.dist, !.saved_match_len = cur.len]

\* The match found at a position is dropped when it is short and far, or
\* when its distance equals the position in the window.
UsedMatch(pos, cur) ==
    IF (cur.len = MinMatchLen /\ cur.dist >= FarMatchDist) \/ pos % LzDictSize = cur.dist
    THEN [dist |-> 0, len |-> 0]
    ELSE cur

\* The lookahead moves on by n bytes.
MoveOn(data, st, n) ==
    [st EXCEPT !.pos = @ + n,
               !.dict_size = Min(DictSize(data, st.pos) + n, LzDictSize)]

\* The lazy parsing: what is recorded at the position st.pos, at which the
\* match `cur` was found.
ParseAt(data, st, cur) ==
    IF st.saved_match_len # 0
    THEN IF cur.len > st.saved_match_len
         THEN IF cur.len >= EagerMatchLen
              THEN MoveOn(data, [RecordMatch(RecordLiteral(st, st.saved_lit),
                                             cur.len, cur.dist)
                                     EXCEPT !.saved_match_len = 0], cur.len)
              ELSE MoveOn(data, SaveMatch(RecordLiteral(st, st.saved_lit),
                                          data[st.pos + 1], cur), 1)
         ELSE MoveOn(data, [RecordMatch(st, st.saved_match_len, st.saved_match_dist)
                                EXCEPT !.saved_match_len = 0],
                     st.saved_match_len - 1)
    ELSE IF cur.dist = 0 THEN MoveOn(data, RecordLiteral(st, data[st.pos + 1]), 1)
    ELSE IF cur.len >= EagerMatchLen
         THEN MoveOn(data, RecordMatch(st, cur.len, cur.dist), cur.len)
    ELSE MoveOn(data, SaveMatch(st, data[st.pos + 1], cur), 1)

\* The raw block of flush_block: type 00, padding to a byte, the length and
\* its complement, the bytes of the block.
RECURSIVE ByteBits(_, _, _)
ByteBits(data, lo, hi) ==
    IF lo > hi THEN <<>>
    ELSE IF lo = hi THEN FieldBits(data[lo], 8)
    ELSE ByteBits(data, lo, (lo + hi) \div 2) \o ByteBits(data, (lo + hi) \div 2 + 1, hi)
RawBlock(data, st, head) ==
    head \o <<0, 0>> \o [k \in 1..((8 - ((Len(head) + 2) % 8)) % 8) |-> 0]
        \o FieldBits(st.total_bytes % 65536, 16)
        \o FieldBits(65535 - (st.total_bytes % 65536), 16)
        \o ByteBits(data, st.code_buf_dict_pos + 1, st.code_buf_dict_pos + st.total_bytes)

\* flush_block: the pending codes become one block that follows the stream
\* so far and the bit that says whether the block is the last.  The block
\* is stored instead when coding it saved nothing: it has more than
\* StoredBlockBytes bytes, its codes filled at least as many bytes less
\* one, and its bytes are still in the window.
FlushBlock(data, st, final) ==
    With(CompressBlock(st.codes, st.total_bytes < StaticBlockBytes), LAMBDA block :
        LET head == st.bits \o <<final>>
            expanded == /\ st.total_bytes > StoredBlockBytes
                        /\ ((Len(head) + Len(block)) \div 8) - (Len(head) \div 8) + 1
                               >= st.total_bytes
                        /\ st.pos - st.code_buf_dict_pos <= st.dict_size
        IN  [st EXCEPT !.bits = IF expanded THEN RawBlock(data, st, head) ELSE head \o block,
                       !.codes = <<>>,
                       !.code_position = 1,
                       !.num_flags_left = 8,
                       !.code_buf_dict_pos = @ + st.total_bytes,
                       !.total_bytes = 0])

\* One turn of the loop of compress_normal: the match at the position and
\* what is recorded for it.  The block is ended when the code buffer is
\* nearly full, or when the block is long and its codes take about as much
\* room as its bytes.
ParseStep(data, st) ==
    With(ParseAt(data, st,
                 UsedMatch(st.pos,
                           FindMatch([data |-> data, pos |-> st.pos,
                                      max_dist |-> DictSize(data, st.pos),
                                      max_len |-> Lookahead(data, st.pos)],
                                     IF st.saved_match_len # 0 THEN st.saved_match_len
                                     ELSE MinMatchLen - 1))),
         LAMBDA after :
             IF \/ after.code_position > LzCodeBufSize - 8
                \/ /\ after.total_bytes > FatBlockBytes
                   /\ (after.code_position * 115) \div 128 >= after.total_bytes
             THEN FlushBlock(data, after, 0)
             ELSE after)

\* The loops of the compressor: when a loop ends, and one turn of it.
LoopDone(loop, ctx, st) ==
    CASE loop = "mr_build" -> st.next >= ctx - 1
      [] loop = "mr_depth" -> st.next < 0
      [] loop = "mr_length" -> st.inner /\ st.avbl <= 0
      [] loop = "enforce" -> FALSE
      [] loop = "rle" -> st.i > Len(ctx)
      [] loop = "probe" -> st.done
      [] loop = "parse" -> st.pos >= Len(ctx)
LoopStep(loop, ctx, st) ==
    CASE loop = "mr_build" -> MrTakeSecond(ctx, MrTakeFirst(ctx, st))
      [] loop = "mr_depth" -> MrDepthStep(st)
      [] loop = "mr_length" -> MrLengthStep(st)
      [] loop = "enforce" -> EnforceStep(ctx, st)
      [] loop = "rle" -> RleStep(ctx, st)
      [] loop = "probe" -> ProbeStep(ctx, st)
      [] loop = "parse" -> ParseStep(ctx, st)
\* At most n turns, a quarter of them at a time: each quarter starts from
\* the state the quarter before leaves.
RECURSIVE Turns(_, _, _, _)
Turns(loop, ctx, st, n) ==
    IF n <= 0 \/ LoopDone(loop, ctx, st) THEN st
    ELSE IF n = 1 THEN LoopStep(loop, ctx, st)
    ELSE CHOOSE r \in
             {Turns(loop, ctx, s3, (n + 3) \div 4) :
                 s3 \in {Turns(loop, ctx, s2, (n + 2) \div 4) :
                     s2 \in {Turns(loop, ctx, s1, (n + 1) \div 4) :
                         s1 \in {Turns(loop, ctx, st, n \div 4)}}}} : TRUE
\* At most n turns in blocks of b, 4 * b, 16 * b, .. turns, each block from
\* the state the block before leaves.
RECURSIVE TurnsFrom(_, _, _, _, _)
TurnsFrom(loop, ctx, st, n, b) ==
    IF n <= 0 \/ LoopDone(loop, ctx, st) THEN st
    ELSE TurnsFrom(loop, ctx, Turns(loop, ctx, st, Min(b, n)), n - b, 4 * b)
Iterate(loop, ctx, st, n) == TurnsFrom(loop, ctx, st, n, 1)

\* The deflate stream of a chunk written in one write_all and finished:
\* the parse of the whole chunk, then the last block.
Deflate(data) ==
    CHOOSE stream \in
        {PackBits(FlushBlock(data, parsed, 1).bits) :
            parsed \in
                {Iterate("parse", data,
                         [pos |-> 0, dict_size |-> 0,
                          saved_lit |-> 0, saved_match_dist |-> 0, saved_match_len |-> 0,
                          codes |-> <<>>, code_position |-> 1, num_flags_left |-> 8,
                          total_bytes |-> 0, code_buf_dict_pos |-> 0, bits |-> <<>>],
                         Len(data))}} : TRUE

\* GzEncoder::write_all + finish: header, deflate stream, CRC-32, ISIZE.
GzEncode(data) ==
    GzHeader \o Deflate(data) \o Crc32(data) \o Le32(Len(data))

\* ---- inflate
NumBits(bytes) == 8 * Len(bytes)
\* Bit i (from 0) of a byte string, each byte read from its least
\* significant bit; 0 past the end, where no caller looks.
BitAt(bytes, i) ==
    IF i >= NumBits(bytes) THEN 0 ELSE (bytes[(i \div 8) + 1] \div 2^(i % 8)) % 2

\* An n-bit field starting at bit i, least significant bit first.
RECURSIVE BitsLsb(_, _, _)
BitsLsb(bytes, i, n) ==
    IF n = 0 THEN 0 ELSE BitAt(bytes, i) + 2 * BitsLsb(bytes, i + 1, n - 1)

InflateErr == [ok |-> FALSE, data |-> <<>>, pos |-> 0]

\* Symbols of a canonical Huffman code with a given code length (tuple
\* index = symbol + 1).
WithLen(lens, len) == {s \in 1..Len(lens) : lens[s] = len}

\* The symbols of one code length, in increasing order.
SortedSymbols(same) ==
    [k \in 1..Cardinality(same) |->
        (CHOOSE s \in same : Cardinality({t \in same : t < s}) = k - 1) - 1]

RECURSIVE CountsFrom(_, _)
CountsFrom(lens, len) ==
    IF len > 15 THEN <<>>
    ELSE <<Cardinality(WithLen(lens, len))>> \o CountsFrom(lens, len + 1)

RECURSIVE SymbolsFrom(_, _)
SymbolsFrom(lens, len) ==
    IF len > 15 THEN <<>>
    ELSE SortedSymbols(WithLen(lens, len)) \o SymbolsFrom(lens, len + 1)

\* The decoding table of the canonical code with code lengths `lens`: the
\* number of codes of each length, and the symbols ordered by code.
HuffTable(lens) == [count |-> CountsFrom(lens, 1), symbol |-> SymbolsFrom(lens, 1)]

FixedLitTable == HuffTable(FixedLitLens)
FixedDistTable == HuffTable(FixedDistLens)

\* Read one symbol with the table h: the code grows a bit at a time until
\* it falls among the codes of its length.  `first` is the first code of
\* length len and `index` the place of its symbol in h.symbol.
RECURSIVE HuffWalk(_, _, _, _, _, _, _)
HuffWalk(bytes, pos, h, len, code, first, index) ==
    IF len > 15 \/ pos >= NumBits(bytes) THEN [ok |-> FALSE, sym |-> 0, pos |-> 0]
    ELSE IF code + BitAt(bytes, pos) - h.count[len] < first
         THEN [ok |-> TRUE,
               sym |-> h.symbol[index + (code + BitAt(bytes, pos) - first) + 1],
               pos |-> pos + 1]
    ELSE HuffWalk(bytes, pos + 1, h, len + 1, 2 * (code + BitAt(bytes, pos)),
                  2 * (first + h.count[len]), index + h.count[len])

HuffDecode(bytes, pos, h) == HuffWalk(bytes, pos, h, 1, 0, 0, 0)

\* Space left in a code: 2^15 for no code at all, 0 for a complete code,
\* negative for an over-subscribed one.
RECURSIVE KraftLeft(_, _)
KraftLeft(lens, len) ==
    IF len > 15 THEN 32768
    ELSE KraftLeft(lens, len + 1) - Cardinality(WithLen(lens, len)) * 2^(15 - len)

\* A usable literal/length or distance code: complete, or with at most one
\* symbol in use.
UsableCode(lens) ==
    \/ KraftLeft(lens, 1) = 0
    \/ Cardinality({s \in 1..Len(lens) : lens[s] # 0}) <= 1

\* A length/distance pair copies `len` bytes from `dist` bytes back in the
\* window; the copy may overlap what it writes, and the window holds zeros
\* before the first byte of the output.
CopyMatch(out, dist, len) ==
    out \o [k \in 1..len |->
               IF Len(out) - dist + 1 + ((k - 1) % dist) <= 0 THEN 0
               ELSE out[Len(out) - dist + 1 + ((k - 1) % dist)]]

\* The state of the decoding loop of a compressed block.
CodesErr == [ok |-> FALSE, done |-> TRUE, data |-> <<>>, pos |-> 0]

\* The distance symbol d of a match of `len` bytes and its extra bits, then
\* the copy.
MatchDist(bytes, st, len, d) ==
    IF ~d.ok THEN CodesErr
    ELSE IF d.sym > 29 THEN CodesErr
    ELSE IF d.pos + DistExtra[d.sym + 1] > NumBits(bytes) THEN CodesErr
    ELSE [ok |-> TRUE, done |-> FALSE,
          data |-> CopyMatch(st.data,
                             DistBase[d.sym + 1] + BitsLsb(bytes, d.pos, DistExtra[d.sym + 1]),
                             len),
          pos |-> d.pos + DistExtra[d.sym + 1]]

\* The extra bits of length symbol 256 + li, from bit pos, then the distance.
MatchLen(bytes, st, dist, li, pos) ==
    IF pos + LenExtra[li] > NumBits(bytes) THEN CodesErr
    ELSE MatchDist(bytes, st, LenBase[li] + BitsLsb(bytes, pos, LenExtra[li]),
                   HuffDecode(bytes, pos + LenExtra[li], dist))

\* What the literal/length symbol s does: a literal, the end-of-block code,
\* or a length followed by a distance.
ApplySymbol(bytes, st, dist, s) ==
    IF ~s.ok THEN CodesErr
    ELSE IF s.sym < 256
         THEN [ok |-> TRUE, done |-> FALSE, data |-> Append(st.data, s.sym), pos |-> s.pos]
    ELSE IF s.sym = 256 THEN [ok |-> TRUE, done |-> TRUE, data |-> st.data, pos |-> s.pos]
    ELSE IF s.sym > 285 THEN CodesErr
    ELSE MatchLen(bytes, st, dist, s.sym - 256, s.pos)

\* At most n symbols of a compressed block; the second half of them starts
\* from the state the first half leaves.
RECURSIVE InflateRun(_, _, _, _, _)
InflateRun(bytes, st, lit, dist, n) ==
    IF st.done THEN st
    ELSE IF n <= 1 THEN ApplySymbol(bytes, st, dist, HuffDecode(bytes, st.pos, lit))
    ELSE CHOOSE r \in {InflateRun(bytes, mid, lit, dist, n - (n \div 2)) :
                         mid \in {InflateRun(bytes, st, lit, dist, n \div 2)}} : TRUE

\* The symbols of one compressed block, decoded with the tables lit and
\* dist, up to its end-of-block code.  Every symbol takes at least one bit,
\* so the bits that are left bound the loop, which ends at the end-of-block
\* code or in an error.
InflateCodes(bytes, pos, out, lit, dist) ==
    With(InflateRun(bytes, [ok |-> TRUE, done |-> FALSE, data |-> out, pos |-> pos],
                    lit, dist, NumBits(bytes) - pos),
         LAMBDA r :
             IF r.ok /\ r.done THEN [ok |-> TRUE, data |-> r.data, pos |-> r.pos]
             ELSE InflateErr)

\* The raw bytes of a stored block: LEN at bit p, NLEN after it.
StoredBytes(bytes, out, p, len, nlen) ==
    IF len + nlen # 65535 \/ p + 32 + 8 * len > NumBits(bytes) THEN InflateErr
    ELSE [ok |-> TRUE,
          data |-> out \o SubSeq(bytes, (p \div 8) + 5, (p \div 8) + 4 + len),
          pos |-> p + 32 + 8 * len]

\* A stored block: skip to the byte boundary, LEN, NLEN, LEN raw bytes.
InflateStored(bytes, pos, out) ==
    LET p == ((pos + 7) \div 8) * 8
    IN  IF p + 32 > NumBits(bytes) THEN InflateErr
        ELSE StoredBytes(bytes, out, p, BitsLsb(bytes, p, 16), BitsLsb(bytes, p + 16, 16))

LengthsErr == [ok |-> FALSE, lens |-> <<>>, pos |-> 0]

\* Symbol sym of the code length code repeats the value v `n` times; its
\* extra bits end at bit npos.
RepeatLength(bytes, st, total, v, n, npos) ==
    IF npos > NumBits(bytes) \/ Len(st.lens) + n > total THEN LengthsErr
    ELSE [ok |-> TRUE, lens |-> st.lens \o [k \in 1..n |-> v], pos |-> npos]

\* What symbol s of the code length code does: a length, a repeat of the
\* last length (16), or a run of zeros (17, 18).
ApplyLength(bytes, st, total, s) ==
    IF ~s.ok THEN LengthsErr
    ELSE IF s.sym < 16 THEN RepeatLength(bytes, st, total, s.sym, 1, s.pos)
    ELSE IF s.sym = 16
         THEN IF st.lens = <<>> THEN LengthsErr
              ELSE RepeatLength(bytes, st, total, st.lens[Len(st.lens)],
                                3 + BitsLsb(bytes, s.pos, 2), s.pos + 2)
    ELSE IF s.sym = 17
         THEN RepeatLength(bytes, st, total, 0, 3 + BitsLsb(bytes, s.pos, 3), s.pos + 3)
    ELSE RepeatLength(bytes, st, total, 0, 11 + BitsLsb(bytes, s.pos, 7), s.pos + 7)

\* At most n symbols of the run-length coded code lengths of a dynamic
\* block, `total` lengths in all.
RECURSIVE ReadLengths(_, _, _, _, _)
ReadLengths(bytes, st, cl, total, n) ==
    IF ~st.ok \/ Len(st.lens) = total THEN st
    ELSE IF n <= 1 THEN ApplyLength(bytes, st, total, HuffDecode(bytes, st.pos, cl))
    ELSE CHOOSE r \in {ReadLengths(bytes, mid, cl, total, n - (n \div 2)) :
                         mid \in {ReadLengths(bytes, st, cl, total, n \div 2)}} : TRUE

\* The code length code of a dynamic block: ncode 3-bit lengths from bit
\* pos, stored in the order ClOrder.
CodeLengthCode(bytes, pos, ncode) ==
    [s \in 1..19 |->
        IF \E k \in 1..ncode : ClOrder[k] = s - 1
        THEN BitsLsb(bytes, pos + 3 * ((CHOOSE k \in 1..ncode : ClOrder[k] = s - 1) - 1), 3)
        ELSE 0]

\* The symbols of a dynamic block whose two codes have the lengths ll, dl.
DynamicCodes(bytes, pos, out, ll, dl) ==
    IF ~UsableCode(ll) \/ ~UsableCode(dl) THEN InflateErr
    ELSE InflateCodes(bytes, pos, out, HuffTable(ll), HuffTable(dl))

\* The code lengths of a dynamic block, from bit pos, coded with cl, and
\* split into the two codes.
DynamicLengths(bytes, pos, out, nlen, ndist, cl) ==
    IF KraftLeft(cl, 1) # 0 THEN InflateErr
    ELSE With(ReadLengths(bytes, [ok |-> TRUE, lens |-> <<>>, pos |-> pos],
                          HuffTable(cl), nlen + ndist, nlen + ndist),
              LAMBDA r :
                  IF ~r.ok THEN InflateErr
                  ELSE DynamicCodes(bytes, r.pos, out, SubSeq(r.lens, 1, nlen),
                                    SubSeq(r.lens, nlen + 1, nlen + ndist)))

\* A block with its own Huffman codes: nlen literal/length codes, ndist
\* distance codes and ncode code length codes.
InflateDynamic(bytes, pos, out) ==
    LET nlen == BitsLsb(bytes, pos, 5) + 257
        ndist == BitsLsb(bytes, pos + 5, 5) + 1
        ncode == BitsLsb(bytes, pos + 10, 4) + 4
    IN  IF pos + 14 > NumBits(bytes) THEN InflateErr
        ELSE IF nlen > 286 \/ ndist > 30 \/ pos + 14 + 3 * ncode > NumBits(bytes)
             THEN InflateErr
        ELSE DynamicLengths(bytes, pos + 14 + 3 * ncode, out, nlen, ndist,
                            CodeLengthCode(bytes, pos + 14, ncode))

\* One block of type `type` whose content starts at bit pos.
InflateBlock(bytes, pos, out, type) ==
    CASE type = 0 -> InflateStored(bytes, pos, out)
      [] type = 1 -> InflateCodes(bytes, pos, out, FixedLitTable, FixedDistTable)
      [] type = 2 -> InflateDynamic(bytes, pos, out)
      [] OTHER -> InflateErr

\* The blocks of a deflate stream from bit `pos` on, up to the final one:
\* the data and the bit position after the stream.
RECURSIVE Inflate(_, _, _)
Inflate(bytes, pos, out) ==
    IF pos + 3 > NumBits(bytes) THEN InflateErr
    ELSE With(InflateBlock(bytes, pos + 3, out, BitsLsb(bytes, pos + 1, 2)), LAMBDA r :
             IF ~r.ok THEN InflateErr
             ELSE IF BitAt(bytes, pos) = 1 THEN r
             ELSE Inflate(bytes, r.pos, r.data))

\* The index of the byte after the first zero byte in lo..hi, 0 if there is
\* none.
RECURSIVE AfterZero(_, _, _)
AfterZero(file, lo, hi) ==
    IF lo > hi THEN 0
    ELSE IF lo = hi THEN IF file[lo] = 0 THEN lo + 1 ELSE 0
    ELSE With(AfterZero(file, lo, (lo + hi) \div 2), LAMBDA left :
             IF left # 0 THEN left ELSE AfterZero(file, (lo + hi) \div 2 + 1, hi))

\* The index of the first byte after a zero-terminated field that starts at
\* byte `from`, 0 when the file ends, or the field has more than
\* MaxHeaderBuf bytes, before the terminator.
AfterZString(file, from) == AfterZero(file, from, Min(Len(file), from + MaxHeaderBuf))

\* Header fields are skipped from byte p on; p = 0 says the header was
\* refused.  FEXTRA: a two-byte length and that many bytes.
SkipExtra(file, present, p) ==
    IF p = 0 \/ ~present THEN p
    ELSE IF p + 1 > Len(file) THEN 0
    ELSE IF p + 1 + file[p] + 256 * file[p + 1] > Len(file) THEN 0
    ELSE p + 2 + file[p] + 256 * file[p + 1]

\* FNAME, FCOMMENT: a zero-terminated string.
SkipZString(file, present, p) == IF p = 0 \/ ~present THEN p ELSE AfterZString(file, p)

\* FHCRC: the low two bytes of the CRC-32 of the header so far.
SkipHeaderCrc(file, present, p) ==
    IF p = 0 \/ ~present THEN p
    ELSE IF p + 1 > Len(file) THEN 0
    ELSE IF <<file[p], file[p + 1]>> # SubSeq(Crc32(SubSeq(file, 1, p - 1)), 1, 2) THEN 0
    ELSE p + 2

\* Is bit k of the flag byte FLG set.
Flag(flg, k) == (flg \div 2^k) % 2 = 1

\* The gzip member header: the index of the first byte of the deflate
\* stream, 0 for a header that is refused.  The magic number and the
\* method are checked; MTIME, XFL and OS are read and not looked at; the
\* optional fields announced by FLG are skipped.
GzBodyStart(file) ==
    IF Len(file) < GzHeaderLen THEN 0
    ELSE IF file[1] # 31 \/ file[2] # 139 \/ file[3] # 8 \/ file[4] >= 32 THEN 0
    ELSE SkipHeaderCrc(file, Flag(file[4], 1),
             SkipZString(file, Flag(file[4], 4),
                 SkipZString(file, Flag(file[4], 3),
                     SkipExtra(file, Flag(file[4], 2), GzHeaderLen + 1))))

GzErr == [ok |-> FALSE, data |-> <<>>]

\* The trailer at byte t of the body: the CRC-32 and the length of the data.
GzTrailer(body, data, t) ==
    IF t + GzTrailerLen - 1 > Len(body) THEN GzErr
    ELSE IF SubSeq(body, t, t + 3) # Crc32(data) THEN GzErr
    ELSE IF SubSeq(body, t + 4, t + 7) # Le32(Len(data)) THEN GzErr
    ELSE [ok |-> TRUE, data |-> data]

\* The member whose deflate stream starts at byte `start`: the stream, then
\* the trailer in the bytes that follow it.
GzMember(file, start) ==
    IF start = 0 THEN GzErr
    ELSE With(SubSeq(file, start, Len(file)), LAMBDA body :
             With(Inflate(body, 0, <<>>), LAMBDA r :
                 IF ~r.ok THEN GzErr
                 ELSE GzTrailer(body, r.data, ((r.pos + 7) \div 8) + 1)))

\* GzDecoder::read_to_end: Ok(data) or Err.  The header, the deflate
\* stream, then the eight bytes that follow it.  Bytes after the trailer
\* are not read.
GzDecode(file) == GzMember(file, GzBodyStart(file))

\* ---------------------------------------------------------------- names
filename_str == "f"

\* {:03}: at least three digits, zero-padded.
Pad3_Wrapping(k) ==
    LET w == k % 1000
    IN  IF w < 10 THEN "00" \o ToString(w)
        ELSE IF w < 100 THEN "0" \o ToString(w)
        ELSE ToString(w)
Pad3(k) ==
    IF k < 10 THEN "00" \o ToString(k)
    ELSE IF k < 100 THEN "0" \o ToString(k)
    ELSE ToString(k)

\* format!("{}-{:03}", filename_str, chunk_index)
ChunkFilename(k) == filename_str \o "-" \o Pad3(k)
\* format!("{}-001", filename_str)
EmptyChunkFilename == filename_str \o "-001"
\* format!("{}_parts", filename_str)
ChunksSubDirName == filename_str \o "_parts"

\* ------------------------------------------------------- buffered reader
\* BufReader::read on the source file: `pos` is the file offset, `rb` the
\* bytes still in the reader's buffer, `n` the length of the caller's
\* buffer.  An empty internal buffer and a caller's buffer of at least
\* BufCap bytes read the file directly; otherwise the internal buffer is
\* filled when empty and the caller gets what it holds, at most n bytes.
ReaderRead(file, pos, rb, n) ==
    IF Len(rb) = 0 /\ n >= BufCap
    THEN LET k == Min(n, Len(file) - pos)
         IN  [data |-> SubSeq(file, pos + 1, pos + k), pos |-> pos + k, rbuf |-> <<>>]
    ELSE LET filled == IF Len(rb) = 0
                       THEN SubSeq(file, pos + 1, Min(pos + BufCap, Len(file)))
                       ELSE rb
             pos2 == IF Len(rb) = 0 THEN pos + Len(filled) ELSE pos
             k == Min(n, Len(filled))
         IN  [data |-> SubSeq(filled, 1, k), pos |-> pos2,
              rbuf |-> SubSeq(filled, k + 1, Len(filled))]

\* ----------------------------------------------------------------- state
VARIABLES
    pc,                     \* where the run is
    src,                    \* content of the source file
    size_limit, compress,   \* arguments of split_single_file
    progress_callback,      \* is a progress hook supplied (Some) or not (None)
    message_callback,       \* is a message hook supplied
    splitCalls,             \* split calls made so far on this output root
    diskBefore,             \* the chunk files and the manifest that were on
                            \* disk when the latest split call began
    filePos, rbuf,          \* the BufReader over the source file
    original_file_size, original_checksum,
    chunk_index, chunks_info, total_bytes_processed,
    dirExists,              \* does <root>/<name>_parts exist
    chunkFiles,             \* chunk file name -> bytes on disk
    manifestFile,           \* None or Some(JSON document) at <name>.json
    manifestWrites,         \* number of fs::write calls on the manifest
    splitResult,            \* "none", "Ok" or an error
    progress,               \* split's calls of the progress hook, <<done, total>>
    messages,               \* calls of the message hook
    file_info,              \* the SplitInfo handed to restore_single_file
    tamper,                 \* the step the environment has taken: [kind, name]
    outFile,                \* the output file: [exists, data]
    outBuf,                 \* bytes held by the BufWriter over it
    total_written,
    chunk_pos,              \* index of the next chunk record of the for loop
    chunksOpened,           \* chunk files opened by restore
    warnings,               \* checksum warnings printed by restore
    restoreProgress,        \* restore's calls of the progress hook
    restoreResult,          \* "none", "Ok" or an error
    is_processing,          \* FileSplitterApp::is_processing
    rx,                     \* messages waiting in the receiver the app holds
    started,                \* operations started so far
    worker,                 \* operation -> "running" / "notified" (a callback has
                            \* sent and not yet asked for a frame) / "finished" /
                            \* "panicked"
    sent,                   \* operation -> the messages its worker has sent
    repaint_requested,      \* a frame was requested and is not yet drawn
    ui_pc                   \* the UI thread: "idle" between frames, "drain" in the
                            \* receive loop of a frame

splitVars == <<src, size_limit, compress, filePos, rbuf, original_file_size,
               original_checksum, chunk_index, chunks_info,
               total_bytes_processed, manifestWrites, splitResult>>
diskVars == <<dirExists, chunkFiles, manifestFile>>
hookVars == <<progress, messages>>
callVars == <<progress_callback, message_callback, splitCalls, diskBefore>>
restoreVars == <<file_info, outFile, outBuf, total_written, chunk_pos,
                 chunksOpened, warnings, restoreProgress, restoreResult>>
guiVars == <<is_processing, rx, started, worker, sent, repaint_requested, ui_pc>>
engineVars == <<pc, splitVars, callVars, diskVars, hookVars, tamper, restoreVars>>
vars == <<engineVars, guiVars>>

NoFiles == [n \in {} |-> <<>>]
NoTamper == [kind |-> "none", name |-> ""]
\* What an output file left by an earlier run holds.
StaleOutput == <<1, 1>>

\* The state before split_single_file is called on one of `inputs`.
InitFor(inputs) ==
    /\ pc = "split_open"
    /\ \E in \in inputs : src = in[1] /\ size_limit = in[2]
    /\ compress \in CompressChoices(src, size_limit)
    /\ \E supplied \in BOOLEAN :
         progress_callback = supplied /\ message_callback = supplied
    /\ splitCalls = 1
    /\ diskBefore = [files |-> NoFiles, manifest |-> None]
    /\ filePos = 0 /\ rbuf = <<>>
    /\ original_file_size = 0 /\ original_checksum = None
    /\ chunk_index = 0 /\ chunks_info = <<>> /\ total_bytes_processed = 0
    /\ dirExists = FALSE /\ chunkFiles = NoFiles /\ manifestFile = None
    /\ manifestWrites = 0
    /\ splitResult = "none"
    /\ progress = <<>> /\ messages = <<>>
    /\ file_info = None
    /\ tamper = NoTamper
    /\ outFile \in {[exists |-> FALSE, data |-> <<>>], [exists |-> TRUE, data |-> StaleOutput]}
    /\ outBuf = <<>>
    /\ total_written = 0 /\ chunk_pos = 1 /\ chunksOpened = 0
    /\ warnings = <<>> /\ restoreProgress = <<>>
    /\ restoreResult = "none"
    /\ is_processing = FALSE
    /\ rx = <<>>
    /\ started = 0
    /\ worker = <<>> /\ sent = <<>>
    /\ repaint_requested = FALSE
    /\ ui_pc = "idle"

Init == InitFor(Inputs)

\* ------------------------------------------------------------- the hooks
\* `if let Some(cb) = &progress_callback { cb(done, total); }`: the log of
\* calls the hook has received.
CallProgress(cb, log, done, total) ==
    IF cb THEN Append(log, <<done, total>>) ELSE log

\* `if let Some(cb) = &message_callback { cb(text); }`.
CallMessage(cb, log, text) == IF cb THEN Append(log, text) ELSE log

\* ------------------------------------------------------ split_single_file
\* Lines 61-86: open, metadata, create_dir_all, whole-file checksum,
\* the reader, the counters, the "Splitting" message.
SplitOpen ==
    /\ pc = "split_open"
    /\ original_file_size' = Len(src)
    /\ dirExists' = TRUE
    /\ original_checksum' = Some(calculate_checksum(src))
    /\ filePos' = 0 /\ rbuf' = <<>>
    /\ chunk_index' = 0 /\ chunks_info' = <<>> /\ total_bytes_processed' = 0
    /\ messages' = CallMessage(message_callback, messages, "Splitting")
    /\ pc' = "split_loop"
    /\ UNCHANGED <<src, size_limit, compress, chunkFiles, manifestFile,
                   manifestWrites, splitResult, progress, tamper, restoreVars, callVars, guiVars>>

\* The record pushed for a zero-length source file (lines 101-105).
EmptyChunkInfo ==
    [chunk_filename |-> EmptyChunkFilename,
     chunk_size |-> 0,
     chunk_checksum |-> Some(calculate_buffer_checksum(<<>>))]

\* The bytes a chunk file gets (lines 118-126).
StoredChunk(data, compressed) == IF compressed THEN GzEncode(data) ELSE data

\* The record pushed for a chunk that was read (lines 111, 128-132).
ChunkInfoOf_StoredChecksum(name, data, stored) ==
    [chunk_filename |-> name,
     chunk_size |-> Len(stored),
     chunk_checksum |-> Some(calculate_buffer_checksum(stored))]
ChunkInfoOf(name, data, stored) ==
    [chunk_filename |-> name,
     chunk_size |-> Len(stored),
     chunk_checksum |-> Some(calculate_buffer_checksum(data))]

\* Line 99: a zero-byte read that must still emit a record.
NeedsEmptyChunk(chunks, size) == chunks = <<>> /\ size = 0

\* Line 140: the read was short of size_limit.
IsLastRead_Never(bytes_read, limit) == FALSE
IsLastRead(bytes_read, limit) == bytes_read < limit

\* One iteration of the loop of lines 88-143.
SplitLoop ==
    /\ pc = "split_loop"
    /\ LET idx == chunk_index + 1
           name == ChunkFilename(idx)
           r == ReaderRead(src, filePos, rbuf, size_limit)
           bytes_read == Len(r.data)
           stored == StoredChunk(r.data, compress)
       IN  /\ chunk_index' = idx
           /\ filePos' = r.pos
           /\ rbuf' = r.rbuf
           /\ IF bytes_read = 0
              THEN /\ chunks_info' =
                          IF NeedsEmptyChunk(chunks_info, original_file_size)
                          THEN Append(chunks_info, EmptyChunkInfo)
                          ELSE chunks_info
                   /\ pc' = "split_verify"
                   /\ UNCHANGED <<chunkFiles, total_bytes_processed, progress>>
              ELSE /\ chunkFiles' = (name :> stored) @@ chunkFiles
                   /\ chunks_info' = Append(chunks_info, ChunkInfoOf(name, r.data, stored))
                   /\ total_bytes_processed' = total_bytes_processed + bytes_read
                   /\ progress' = CallProgress(progress_callback, progress,
                                               total_bytes_processed + bytes_read,
                                               original_file_size)
                   /\ pc' = IF IsLastRead(bytes_read, size_limit)
                            THEN "split_verify" ELSE "split_loop"
    /\ UNCHANGED <<src, size_limit, compress, original_file_size,
                   original_checksum, dirExists, manifestFile, manifestWrites,
                   splitResult, messages, tamper, restoreVars, callVars, guiVars>>

\* Line 150.
SizeMatches_Unchecked(processed, size) == TRUE
SizeMatches(processed, size) == processed = size

\* Lines 145-156: the "splitting complete" message and the size check.
SplitVerify_HookGated ==
    /\ pc = "split_verify"
    /\ messages' = CallMessage(message_callback, messages, "splitting complete")
    /\ IF ~message_callback \/ SizeMatches(total_bytes_processed, original_file_size)
       THEN pc' = "split_save" /\ UNCHANGED splitResult
       ELSE pc' = "split_done" /\ splitResult' = "ErrSizeMismatch"
    /\ UNCHANGED <<src, size_limit, compress, filePos, rbuf, original_file_size,
                   original_checksum, chunk_index, chunks_info,
                   total_bytes_processed, manifestWrites, diskVars, progress,
                   tamper, restoreVars, callVars, guiVars>>
SplitVerify ==
    /\ pc = "split_verify"
    /\ messages' = CallMessage(message_callback, messages, "splitting complete")
    /\ IF SizeMatches(total_bytes_processed, original_file_size)
       THEN pc' = "split_save" /\ UNCHANGED splitResult
       ELSE pc' = "split_done" /\ splitResult' = "ErrSizeMismatch"
    /\ UNCHANGED <<src, size_limit, compress, filePos, rbuf, original_file_size,
                   original_checksum, chunk_index, chunks_info,
                   total_bytes_processed, manifestWrites, diskVars, progress,
                   tamper, restoreVars, callVars, guiVars>>

\* Lines 159-167.
BuildSplitInfo ==
    [original_filename |-> filename_str,
     original_file_size |-> original_file_size,
     chunk_limit |-> size_limit,
     chunks_sub_dir |-> ChunksSubDirName,
     chunks |-> chunks_info,
     original_checksum |-> Unwrap(original_checksum),
     is_compressed |-> compress]

\* serde_json::to_string_pretty of a ChunkInfo / SplitInfo: an object with
\* the field names as keys; Option<String> becomes the string or null.
ChunkToJson(c) ==
    [chunk_filename |-> c.chunk_filename,
     chunk_size |-> c.chunk_size,
     chunk_checksum |-> IF IsSome(c.chunk_checksum)
                        THEN [json |-> "string", value |-> Unwrap(c.chunk_checksum)]
                        ELSE [json |-> "null", value |-> calculate_buffer_checksum(<<>>)]]

ToJson(info) ==
    [original_filename |-> info.original_filename,
     original_file_size |-> info.original_file_size,
     chunk_limit |-> info.chunk_limit,
     chunks_sub_dir |-> info.chunks_sub_dir,
     chunks |-> [i \in 1..Len(info.chunks) |-> ChunkToJson(info.chunks[i])],
     original_checksum |-> info.original_checksum,
     is_compressed |-> info.is_compressed]

\* Lines 158-180: build the SplitInfo, write it, the "saved" message, Ok.
SplitSave ==
    /\ pc = "split_save"
    /\ manifestFile' = Some(ToJson(BuildSplitInfo))
    /\ manifestWrites' = manifestWrites + 1
    /\ messages' = CallMessage(message_callback, messages, "Split info saved")
    /\ splitResult' = "Ok"
    /\ pc' = "split_done"
    /\ UNCHANGED <<src, size_limit, compress, filePos, rbuf, original_file_size,
                   original_checksum, chunk_index, chunks_info,
                   total_bytes_processed, dirExists, chunkFiles, progress,
                   tamper, restoreVars, callVars, guiVars>>

\* ------------------------------------------------- the manifest, read back
\* serde_json::from_str::<SplitInfo> (src/main.rs): the inverse of ToJson.
ChunkFromJson(j) ==
    [chunk_filename |-> j.chunk_filename,
     chunk_size |-> j.chunk_size,
     chunk_checksum |-> IF j.chunk_checksum.json = "null"
                        THEN None
                        ELSE Some(j.chunk_checksum.value)]

FromJson(j) ==
    [original_filename |-> j.original_filename,
     original_file_size |-> j.original_file_size,
     chunk_limit |-> j.chunk_limit,
     chunks_sub_dir |-> j.chunks_sub_dir,
     chunks |-> [i \in 1..Len(j.chunks) |-> ChunkFromJson(j.chunks[i])],
     original_checksum |-> j.original_checksum,
     is_compressed |-> j.is_compressed]

\* The restore command (src/main.rs) reads the info file that is on disk,
\* whichever split call wrote it, and parses it; without an info file the
\* command ends before restore_single_file is called.
LoadManifest ==
    /\ pc = "split_done"
    /\ IsSome(manifestFile)
    /\ file_info' = Some(FromJson(Unwrap(manifestFile)))
    /\ pc' = "loaded"
    /\ UNCHANGED <<splitVars, diskVars, hookVars, tamper, outFile, outBuf,
                   total_written, chunk_pos, chunksOpened, warnings,
                   restoreProgress, restoreResult, callVars, guiVars>>

\* ------------------------------------------------------- the environment
\* Between split and restore the chunk files and the SplitInfo handed to
\* restore are outside the engine's control: the environment may take one
\* of the steps below, once.
CanTamper == pc = "loaded" /\ tamper = NoTamper

TamperFrame ==
    UNCHANGED <<pc, splitVars, manifestFile, hookVars, outFile, outBuf,
                total_written, chunk_pos, chunksOpened, warnings,
                restoreProgress, restoreResult, callVars, guiVars>>

\* Byte positions of a chunk file that the environment may change: all of
\* them in a small file, the first and the last ones of a large file.
MutPositions(f) ==
    {p \in 1..Len(f) : p <= GzHeaderLen + GzTrailerLen + MaxFileLen
                        \/ p > Len(f) - GzTrailerLen}

MutatedByte(b) == (b + 1) % 256

\* One byte of one chunk file changes.
MutateChunkByte ==
    /\ CanTamper
    /\ \E name \in DOMAIN chunkFiles : \E p \in MutPositions(chunkFiles[name]) :
         /\ chunkFiles' = [chunkFiles EXCEPT ![name][p] = MutatedByte(@)]
         /\ tamper' = [kind |-> "mutate", name |-> name]
    /\ TamperFrame
    /\ UNCHANGED <<dirExists, file_info>>

\* A chunk file loses its last byte.
TruncateChunk ==
    /\ CanTamper
    /\ \E name \in DOMAIN chunkFiles :
         /\ Len(chunkFiles[name]) > 0
         /\ chunkFiles' = [chunkFiles EXCEPT
                             ![name] = SubSeq(@, 1, Len(@) - 1)]
         /\ tamper' = [kind |-> "truncate", name |-> name]
    /\ TamperFrame
    /\ UNCHANGED <<dirExists, file_info>>

\* A chunk file is removed.
DeleteChunk ==
    /\ CanTamper
    /\ \E name \in DOMAIN chunkFiles :
         /\ chunkFiles' = [n \in DOMAIN chunkFiles \ {name} |-> chunkFiles[n]]
         /\ tamper' = [kind |-> "delete", name |-> name]
    /\ TamperFrame
    /\ UNCHANGED <<dirExists, file_info>>

\* The chunk directory is not under the root given to restore.
RemoveChunkDir ==
    /\ CanTamper
    /\ dirExists
    /\ dirExists' = FALSE
    /\ chunkFiles' = NoFiles
    /\ tamper' = [kind |-> "rmdir", name |-> ""]
    /\ TamperFrame
    /\ UNCHANGED file_info

\* A digest other than the one given.
OtherDigest(d) == [sha256 |-> Append(d.sha256, 255)]

\* The SplitInfo handed to restore differs from the one split wrote:
\* another size, a chunk checksum dropped or changed, another file checksum.
EditSplitInfo ==
    /\ CanTamper
    /\ LET info == Unwrap(file_info)
       IN  \/ file_info' = Some([info EXCEPT !.original_file_size = @ + 1])
           \/ file_info' = Some([info EXCEPT !.original_checksum = OtherDigest(@)])
           \/ \E k \in 1..Len(info.chunks) :
                \/ file_info' = Some([info EXCEPT !.chunks[k].chunk_checksum = None])
                \/ /\ IsSome(info.chunks[k].chunk_checksum)
                   /\ file_info' = Some([info EXCEPT !.chunks[k].chunk_checksum =
                                                       Some(OtherDigest(Unwrap(@)))])
    /\ tamper' = [kind |-> "edit", name |-> ""]
    /\ TamperFrame
    /\ UNCHANGED <<dirExists, chunkFiles>>

\* ---------------------------------------------------- restore_single_file
\* BufWriter::write_all: `file` is what the file holds, `buf` what the
\* writer holds.
WriterWriteAll(file, buf, data) ==
    IF Len(data) < BufCap - Len(buf)
    THEN [file |-> file, buf |-> buf \o data]
    ELSE LET file1 == IF Len(data) > BufCap - Len(buf) THEN file \o buf ELSE file
             buf1 == IF Len(data) > BufCap - Len(buf) THEN <<>> ELSE buf
         IN  IF Len(data) >= BufCap
             THEN [file |-> file1 \o data, buf |-> buf1]
             ELSE [file |-> file1, buf |-> buf1 \o data]

\* BufWriter::flush, also run when the writer is dropped on return.
WriterFlush_Dropped(file, buf) == file
WriterFlush(file, buf) == file \o buf

\* Line 209.
ChunkDirFound_Skipped(exists) == TRUE
ChunkDirFound(exists) == exists

\* Lines 197-215: create (truncate) the output file, the "Restoring"
\* message, the chunk directory check.
RestoreOpen ==
    /\ pc = "loaded"
    /\ outFile' = [exists |-> TRUE, data |-> <<>>]
    /\ outBuf' = <<>>
    /\ messages' = CallMessage(message_callback, messages, "Restoring")
    /\ total_written' = 0
    /\ chunk_pos' = 1
    /\ IF ChunkDirFound(dirExists)
       THEN pc' = "restore_loop" /\ UNCHANGED restoreResult
       ELSE pc' = "restore_done" /\ restoreResult' = "ErrChunkDirNotFound"
    /\ UNCHANGED <<splitVars, diskVars, progress, tamper, file_info,
                   chunksOpened, warnings, restoreProgress, callVars, guiVars>>

\* Lines 225-231: the chunk's bytes as read back.
DecodeChunk(file, is_compressed) ==
    IF is_compressed THEN GzDecode(file) ELSE [ok |-> TRUE, data |-> file]

\* Lines 234-236: is a warning printed for this chunk.
ChunkChecksumMismatch_Never(chunk_info, data) == FALSE
ChunkChecksumMismatch(chunk_info, data) ==
    /\ IsSome(chunk_info.chunk_checksum)
    /\ calculate_buffer_checksum(data) # Unwrap(chunk_info.chunk_checksum)

\* One iteration of the loop of lines 217-249.
RestoreChunk ==
    /\ pc = "restore_loop"
    /\ chunk_pos <= Len(Unwrap(file_info).chunks)
    /\ LET info == Unwrap(file_info)
           chunk_info == info.chunks[chunk_pos]
           name == chunk_info.chunk_filename
       IN  IF name \notin DOMAIN chunkFiles
           THEN /\ restoreResult' = "ErrOpenChunk"
                /\ pc' = "restore_done"
                /\ outFile' = [outFile EXCEPT !.data = WriterFlush(@, outBuf)]
                /\ outBuf' = <<>>
                /\ UNCHANGED <<total_written, chunk_pos, chunksOpened, warnings,
                               restoreProgress>>
           ELSE LET dec == DecodeChunk(chunkFiles[name], info.is_compressed)
                    w == WriterWriteAll(outFile.data, outBuf, dec.data)
                IN  /\ chunksOpened' = chunksOpened + 1
                    /\ IF ~dec.ok
                       THEN /\ restoreResult' = "ErrDecode"
                            /\ pc' = "restore_done"
                            /\ outFile' = [outFile EXCEPT !.data = WriterFlush(@, outBuf)]
                            /\ outBuf' = <<>>
                            /\ UNCHANGED <<total_written, chunk_pos, warnings,
                                           restoreProgress>>
                       ELSE /\ warnings' = IF ChunkChecksumMismatch(chunk_info, dec.data)
                                           THEN Append(warnings, name)
                                           ELSE warnings
                            /\ outFile' = [outFile EXCEPT !.data = w.file]
                            /\ outBuf' = w.buf
                            /\ total_written' = total_written + Len(dec.data)
                            /\ restoreProgress' =
                                   CallProgress(progress_callback, restoreProgress,
                                                total_written + Len(dec.data),
                                                info.original_file_size)
                            /\ chunk_pos' = chunk_pos + 1
                            /\ UNCHANGED <<pc, restoreResult>>
    /\ UNCHANGED <<splitVars, diskVars, messages, progress, tamper, file_info, callVars, guiVars>>

\* Line 259.
RestoredSizeMatches_Unchecked(restored_size, expected) == TRUE
RestoredSizeMatches(restored_size, expected) == restored_size = expected

\* Lines 251-275: flush, the "restoration complete" message, the size
\* check, the whole-file checksum check, Ok.
RestoreVerify_CheckFirst ==
    /\ pc = "restore_loop"
    /\ chunk_pos > Len(Unwrap(file_info).chunks)
    /\ LET info == Unwrap(file_info)
           flushed == WriterFlush(outFile.data, outBuf)
       IN  /\ outFile' = [outFile EXCEPT !.data = flushed]
           /\ outBuf' = <<>>
           /\ messages' = IF RestoredSizeMatches(Len(flushed), info.original_file_size)
                          THEN CallMessage(message_callback, messages,
                                           "restoration complete")
                          ELSE messages
           /\ IF ~RestoredSizeMatches(Len(flushed), info.original_file_size)
              THEN restoreResult' = "ErrSizeMismatch" /\ UNCHANGED warnings
              ELSE /\ restoreResult' = "Ok"
                   /\ warnings' = IF calculate_checksum(flushed) # info.original_checksum
                                  THEN Append(warnings, "original")
                                  ELSE warnings
    /\ pc' = "restore_done"
    /\ UNCHANGED <<splitVars, diskVars, progress, tamper, file_info,
                   total_written, chunk_pos, chunksOpened, restoreProgress,
                   callVars, guiVars>>
RestoreVerify ==
    /\ pc = "restore_loop"
    /\ chunk_pos > Len(Unwrap(file_info).chunks)
    /\ LET info == Unwrap(file_info)
           flushed == WriterFlush(outFile.data, outBuf)
       IN  /\ outFile' = [outFile EXCEPT !.data = flushed]
           /\ outBuf' = <<>>
           /\ messages' = CallMessage(message_callback, messages,
                                       "restoration complete")
           /\ IF ~RestoredSizeMatches(Len(flushed), info.original_file_size)
              THEN restoreResult' = "ErrSizeMismatch" /\ UNCHANGED warnings
              ELSE /\ restoreResult' = "Ok"
                   /\ warnings' = IF calculate_checksum(flushed) # info.original_checksum
                                  THEN Append(warnings, "original")
                                  ELSE warnings
    /\ pc' = "restore_done"
    /\ UNCHANGED <<splitVars, diskVars, progress, tamper, file_info,
                   total_written, chunk_pos, chunksOpened, restoreProgress,
                   callVars, guiVars>>

\* ------------------------------------- the calls with both hooks absent
\* split_single_file(.., None, None): the loop of lines 88-143 run to its
\* end from the reader and counters `st`, every `if let Some(cb)` skipped.
RECURSIVE SplitRunNoHooks(_, _, _, _)
SplitRunNoHooks(file, limit, compressed, st) ==
    LET idx == st.chunk_index + 1
        name == ChunkFilename(idx)
        r == ReaderRead(file, st.pos, st.rbuf, limit)
        bytes_read == Len(r.data)
        stored == StoredChunk(r.data, compressed)
    IN  IF bytes_read = 0
        THEN [st EXCEPT !.chunks_info =
                            IF NeedsEmptyChunk(@, Len(file))
                            THEN Append(@, EmptyChunkInfo) ELSE @]
        ELSE LET st1 == [pos |-> r.pos, rbuf |-> r.rbuf, chunk_index |-> idx,
                         chunks_info |-> Append(st.chunks_info,
                                                ChunkInfoOf(name, r.data, stored)),
                         total_bytes_processed |-> st.total_bytes_processed + bytes_read,
                         files |-> (name :> stored) @@ st.files]
             IN  IF IsLastRead(bytes_read, limit)
                 THEN st1
                 ELSE SplitRunNoHooks(file, limit, compressed, st1)

\* What the call returns and leaves on a disk that held the chunk files
\* `files0` and the manifest `manifest0`.
SplitNoHooks(file, limit, compressed, files0, manifest0) ==
    LET st == SplitRunNoHooks(file, limit, compressed,
                              [pos |-> 0, rbuf |-> <<>>, chunk_index |-> 0,
                               chunks_info |-> <<>>, total_bytes_processed |-> 0,
                               files |-> files0])
    IN  IF SizeMatches(st.total_bytes_processed, Len(file))
        THEN [result |-> "Ok",
              files |-> st.files,
              manifest |-> Some(ToJson(
                  [original_filename |-> filename_str,
                   original_file_size |-> Len(file),
                   chunk_limit |-> limit,
                   chunks_sub_dir |-> ChunksSubDirName,
                   chunks |-> st.chunks_info,
                   original_checksum |-> calculate_checksum(file),
                   is_compressed |-> compressed]))]
        ELSE [result |-> "ErrSizeMismatch", files |-> st.files, manifest |-> manifest0]

\* restore_single_file(.., None, None): the loop of lines 217-249 from chunk
\* record k on, with `w` the state of the output file and its BufWriter.
RECURSIVE RestoreRunNoHooks(_, _, _, _)
RestoreRunNoHooks(info, files, k, w) ==
    IF k > Len(info.chunks)
    THEN LET flushed == WriterFlush(w.file, w.buf)
         IN  [result |-> IF RestoredSizeMatches(Len(flushed), info.original_file_size)
                         THEN "Ok" ELSE "ErrSizeMismatch",
              output |-> flushed]
    ELSE LET name == info.chunks[k].chunk_filename
         IN  IF name \notin DOMAIN files
             THEN [result |-> "ErrOpenChunk", output |-> WriterFlush(w.file, w.buf)]
             ELSE LET dec == DecodeChunk(files[name], info.is_compressed)
                  IN  IF ~dec.ok
                      THEN [result |-> "ErrDecode",
                            output |-> WriterFlush(w.file, w.buf)]
                      ELSE RestoreRunNoHooks(info, files, k + 1,
                                             WriterWriteAll(w.file, w.buf, dec.data))

RestoreNoHooks(info, files, dir_exists) ==
    IF ~ChunkDirFound(dir_exists)
    THEN [result |-> "ErrChunkDirNotFound", output |-> <<>>]
    ELSE RestoreRunNoHooks(info, files, 1, [file |-> <<>>, buf |-> <<>>])

Next ==
    \/ SplitOpen
    \/ SplitLoop
    \/ SplitVerify
    \/ SplitSave
    \/ LoadManifest
    \/ MutateChunkByte
    \/ TruncateChunk
    \/ DeleteChunk
    \/ RemoveChunkDir
    \/ EditSplitInfo
    \/ RestoreOpen
    \/ RestoreChunk
    \/ RestoreVerify

Spec == Init /\ [][Next]_vars

\* ------------------------------------------------- splits into many chunks
\* The split alone, on inputs that give more than 999 chunks, without hooks
\* and with no output file around.
InitManyChunks ==
    /\ InitFor(ManyChunkInputs)
    /\ ~progress_callback /\ ~message_callback
    /\ ~outFile.exists

NextSplit ==
    \/ SplitOpen
    \/ SplitLoop
    \/ SplitVerify
    \/ SplitSave

SpecManyChunks == InitManyChunks /\ [][NextSplit]_vars

\* ------------------------------------------------------- repeated splits
\* The caller runs split_single_file again on the same source file and the
\* same output root, with another chunk limit or compress value: the chunk
\* directory, the chunk files and the manifest are as the earlier call left
\* them.
SplitAgainOn(LaterLimits(_, _)) ==
    /\ pc = "split_done"
    /\ splitCalls < MaxSplitCalls
    /\ size_limit' \in LaterLimits(src, size_limit)
    /\ compress' \in CompressChoices(src, size_limit')
    /\ splitCalls' = splitCalls + 1
    /\ diskBefore' = [files |-> chunkFiles, manifest |-> manifestFile]
    /\ splitResult' = "none"
    /\ manifestWrites' = 0
    /\ progress' = <<>> /\ messages' = <<>>
    /\ pc' = "split_open"
    /\ UNCHANGED <<src, filePos, rbuf, original_file_size, original_checksum,
                   chunk_index, chunks_info, total_bytes_processed, diskVars,
                   progress_callback, message_callback, tamper, restoreVars,
                   guiVars>>

\* The limits of a later call on `file`: every limit of Inputs.
AnyLimit(file, limit) == {in[2] : in \in {x \in Inputs : x[1] = file}}

SplitAgain == SplitAgainOn(AnyLimit)

InitResplit ==
    /\ Init
    /\ ~progress_callback /\ ~message_callback
    /\ ~outFile.exists

NextResplit ==
    \/ SplitOpen
    \/ SplitLoop
    \/ SplitVerify
    \/ SplitSave
    \/ SplitAgain

SpecResplit == InitResplit /\ [][NextResplit]_vars

\* ------------------------------------------ restore after repeated splits
\* The split and the restore of Spec, with split calls in between that leave
\* the manifest of an earlier call next to chunk files of a later one: the
\* restore command takes the manifest it finds.
StaleLimit(file, limit) ==
    {in[3] : in \in {x \in StaleInputs : x[1] = file /\ x[2] = limit}}

SplitAgainThenRestore == SplitAgainOn(StaleLimit)

NextStale ==
    \/ Next
    \/ SplitAgainThenRestore

SpecStale == Init /\ [][NextStale]_vars

\* ------------------------------------------------------------ the window
\* src/src/main.rs, FileSplitterApp.  The UI thread runs update() once per
\* frame; a frame is drawn when one was requested with request_repaint or
\* when the user gives input, and a frame with input is followed by one more
\* frame.  start_operation spawns one worker thread per operation; the
\* worker reports through the channel made for it, and runs while the UI
\* thread goes on with its frame.
TerminalKinds == {"Error", "Done"}

HasTerminal(q) == \E i \in 1..Len(q) : q[i] \in TerminalKinds

\* ui.add_enabled(!self.is_processing, Button) (lines 238, 278).
ButtonEnabled(processing) == ~processing

\* The match of lines 293-313 on one received message: is_processing
\* after it.
AfterMessage(processing, msg) == IF msg \in TerminalKinds THEN FALSE ELSE processing

\* A frame in which the user clicks an enabled Start button, up to the end
\* of start_operation (lines 326-345): is_processing is set, the channel is
\* replaced and the worker is spawned.  The frame goes on with the loop
\* over the new receiver.
UiClickStart ==
    /\ ui_pc = "idle"
    /\ ButtonEnabled(is_processing)
    /\ started < MaxOps
    /\ started' = started + 1
    /\ is_processing' = TRUE
    /\ rx' = <<>>
    /\ worker' = Append(worker, "running")
    /\ sent' = Append(sent, <<>>)
    /\ repaint_requested' = TRUE
    /\ ui_pc' = "drain"
    /\ UNCHANGED engineVars

\* The frame drawn because request_repaint was called, up to the loop of
\* line 292; no button is clicked.
UiFrameRepaint ==
    /\ ui_pc = "idle"
    /\ repaint_requested
    /\ repaint_requested' = FALSE
    /\ ui_pc' = "drain"
    /\ UNCHANGED <<is_processing, rx, started, worker, sent, engineVars>>

\* A frame drawn because of user input that clicks no enabled button (the
\* pointer moves over the window), up to the loop of line 292.
UiFrameInput ==
    /\ ui_pc = "idle"
    /\ repaint_requested' = TRUE
    /\ ui_pc' = "drain"
    /\ UNCHANGED <<is_processing, rx, started, worker, sent, engineVars>>

\* One turn of `while let Ok(msg) = rx.try_recv()` (lines 292-314): the
\* message is handled and the next frame requested (lines 296, 300, 305,
\* 311).
UiRecv ==
    /\ ui_pc = "drain"
    /\ rx # <<>>
    /\ is_processing' = AfterMessage(is_processing, Head(rx))
    /\ rx' = Tail(rx)
    /\ repaint_requested' = TRUE
    /\ UNCHANGED <<ui_pc, started, worker, sent, engineVars>>

\* try_recv finds the channel empty: the loop and the frame end.
UiFrameEnd ==
    /\ ui_pc = "drain"
    /\ rx = <<>>
    /\ ui_pc' = "idle"
    /\ UNCHANGED <<is_processing, rx, started, worker, sent, repaint_requested, engineVars>>

\* tx.send(msg).unwrap() in worker w: the message reaches the receiver the
\* app holds if that is still w's channel; otherwise send fails and unwrap
\* panics.
WorkerSend(w, msg, next) ==
    /\ worker[w] = "running"
    /\ IF w = started
       THEN /\ rx' = Append(rx, msg)
            /\ sent' = [sent EXCEPT ![w] = Append(@, msg)]
            /\ worker' = [worker EXCEPT ![w] = next]
       ELSE /\ worker' = [worker EXCEPT ![w] = "panicked"]
            /\ UNCHANGED <<rx, sent>>

\* The send of the progress and message callbacks (lines 376, 380, 436,
\* 440).
WorkerNotify ==
    \E w \in 1..started : \E kind \in {"Progress", "Message"} :
        /\ Len(sent[w]) < MaxNotes
        /\ WorkerSend(w, kind, "notified")
        /\ UNCHANGED <<is_processing, started, repaint_requested, ui_pc, engineVars>>

\* The request_repaint that follows the send in a callback (lines 377, 381,
\* 437, 441).
WorkerRepaint ==
    \E w \in 1..started :
        /\ worker[w] = "notified"
        /\ worker' = [worker EXCEPT ![w] = "running"]
        /\ repaint_requested' = TRUE
        /\ UNCHANGED <<is_processing, rx, started, sent, ui_pc, engineVars>>

\* `return tx_clone.send(WorkerMessage::Error(..)).unwrap()` (lines 354-366,
\* 392, 406-427, 451): the thread ends.
WorkerFail ==
    \E w \in 1..started :
        /\ WorkerSend(w, "Error", "finished")
        /\ UNCHANGED <<is_processing, started, repaint_requested, ui_pc, engineVars>>

\* A panic inside split_single_file, called at line 384 with no
\* catch_unwind around it: with a size limit above isize::MAX the
\* "Splitting" message is sent and vec![0u8; size_limit as usize]
\* (src/src/lib.rs line 93) panics with "capacity overflow".  The thread
\* unwinds and ends; neither Error nor Done is sent.
WorkerPanic ==
    \E w \in 1..started :
        /\ worker[w] = "running"
        /\ sent[w] = <<"Message">>
        /\ worker' = [worker EXCEPT ![w] = "panicked"]
        /\ UNCHANGED <<is_processing, rx, started, sent, repaint_requested, ui_pc,
                       engineVars>>

\* Lines 458-460: every selected file went through (there was at least one,
\* lines 358 and 405, and each call sent its messages), Done is sent, the
\* thread ends.
WorkerDone ==
    \E w \in 1..started :
        /\ sent[w] # <<>>
        /\ WorkerSend(w, "Done", "finished")
        /\ UNCHANGED <<is_processing, started, repaint_requested, ui_pc, engineVars>>

\* The window before any operation; the engine variables stay as they are.
InitGui ==
    /\ InitFor({<<<<>>, 1>>})
    /\ ~compress
    /\ progress_callback /\ message_callback
    /\ ~outFile.exists

NextGui ==
    \/ UiClickStart
    \/ UiFrameRepaint
    \/ UiFrameInput
    \/ UiRecv
    \/ UiFrameEnd
    \/ WorkerNotify
    \/ WorkerRepaint
    \/ WorkerFail
    \/ WorkerDone
    \/ WorkerPanic

\* A requested frame is drawn and a frame that has begun runs to its end;
\* a worker thread runs to its end, with a terminal message or by a panic
\* (the loops over the selected files are finite); nothing makes the user
\* give input.
SpecGui ==
    /\ InitGui
    /\ [][NextGui]_vars
    /\ WF_vars(UiFrameRepaint)
    /\ WF_vars(UiRecv)
    /\ WF_vars(UiFrameEnd)
    /\ WF_vars(WorkerRepaint)
    /\ WF_vars(WorkerFail \/ WorkerDone \/ WorkerPanic)

\* ================================================================ claims
\* The split has returned Ok and the disk is as it left it.
SplitReturnedOk == splitResult = "Ok" /\ tamper = NoTamper

\* The manifest document on disk.
Manifest == Unwrap(manifestFile)

CeilDiv(a, b) == (a + b - 1) \div b

\* Plaintext bytes of a chunk record as the chunk file on disk gives them;
\* a record without a chunk file carries no bytes.
PlainOf(rec, is_compressed) ==
    IF rec.chunk_filename \in DOMAIN chunkFiles
    THEN DecodeChunk(chunkFiles[rec.chunk_filename], is_compressed).data
    ELSE <<>>

RECURSIVE SumPlainLen(_, _, _)
SumPlainLen(chunks, k, is_compressed) ==
    IF k = 0 THEN 0
    ELSE SumPlainLen(chunks, k - 1, is_compressed) + Len(PlainOf(chunks[k], is_compressed))

\* C1: for any content (a zero-length file included) and any positive
\* chunk_limit, restore run on the manifest that split wrote, with the disk
\* untouched in between, returns Ok and leaves an output file equal to the
\* source, compressed or not.
C1_RoundTripIdentity ==
    (pc = "restore_done" /\ size_limit > 0 /\ tamper = NoTamper)
        => (restoreResult = "Ok" /\ outFile.exists /\ outFile.data = src)

\* C2: a split that returns Ok with limit L > 0 on a file of size S wrote a
\* manifest with ceil(S / L) chunk records when S > 0 and with 1 when S = 0.
C2_ChunkCount ==
    (SplitReturnedOk /\ size_limit > 0) =>
        Len(Manifest.chunks) =
            IF Len(src) = 0 THEN 1 ELSE CeilDiv(Len(src), size_limit)

C2_Witness ==
    /\ SplitReturnedOk /\ size_limit > 0
    /\ Len(src) % size_limit # 0
    /\ Len(Manifest.chunks) >= 2

\* C3: when S > 0 is an exact multiple of L, the split call has, when it
\* returns, produced S / L chunk records, the last chunk holds exactly L
\* plaintext bytes, and the extra read that returned zero bytes left no
\* record and no chunk file.
C3_SizeBoundary ==
    (pc = "split_done" /\ size_limit > 0 /\ Len(src) > 0 /\ Len(src) % size_limit = 0) =>
        LET n == Len(src) \div size_limit
        IN  /\ Len(chunks_info) = n
            /\ Len(PlainOf(chunks_info[n], compress)) = size_limit
            /\ \A k \in 1..n : Len(PlainOf(chunks_info[k], compress)) > 0
            /\ chunk_index = n + 1
            /\ ChunkFilename(n + 1) \notin DOMAIN chunkFiles
            /\ DOMAIN chunkFiles = {ChunkFilename(k) : k \in 1..n}

\* C4: in the manifest of a split that returned Ok the plaintext lengths of
\* the chunks add up to original_file_size; a split whose loop processed a
\* number of bytes other than the file size returns the size-mismatch error.
C4_PlaintextSize ==
    /\ SplitReturnedOk =>
          /\ Manifest.original_file_size = Len(src)
          /\ SumPlainLen(Manifest.chunks, Len(Manifest.chunks), Manifest.is_compressed)
                 = Manifest.original_file_size
    /\ (pc = "split_done" /\ total_bytes_processed # Len(src)) =>
          splitResult = "ErrSizeMismatch"

C4_Witness ==
    /\ SplitReturnedOk /\ compress
    /\ Len(Manifest.chunks) >= 2
    /\ Manifest.original_file_size = MaxFileLen

\* C5: the manifest is written once per split call, by the step that
\* follows a passed size check, when every chunk file is on disk; a split
\* that returned an error wrote no manifest.
C5_WriteStep ==
    (manifestWrites' # manifestWrites \/ manifestFile' # manifestFile) =>
        /\ pc = "split_save" /\ pc' = "split_done"
        /\ manifestWrites = 0 /\ manifestWrites' = 1
        /\ manifestFile = None
        /\ total_bytes_processed = original_file_size
        /\ chunkFiles' = chunkFiles
        /\ \A k \in 1..Len(chunks_info) :
               chunks_info[k].chunk_filename \in DOMAIN chunkFiles
                   \/ original_file_size = 0
        /\ splitResult' = "Ok"

C5_ManifestLifecycle ==
    /\ [][C5_WriteStep]_vars
    /\ [](splitResult = "Ok" => manifestWrites = 1 /\ IsSome(manifestFile))
    /\ [](splitResult = "ErrSizeMismatch" => manifestWrites = 0 /\ manifestFile = None)

C5_Witness ==
    /\ pc = "split_done" /\ splitResult = "Ok"
    /\ manifestWrites = 1
    /\ Len(chunks_info) >= 2

\* The chunk directory was missing when restore looked for it (nothing
\* changes the disk once restore has started).
RestoreRanWithoutDir == pc \in {"restore_loop", "restore_done"} /\ ~dirExists

\* C6: when the chunk directory does not exist, restore returns the
\* directory-not-found error, has opened no chunk file and called no
\* progress hook, and the output file exists with length 0; the error is
\* returned in no other case.
C6_MissingChunkDir ==
    /\ RestoreRanWithoutDir =>
          /\ pc = "restore_done"
          /\ restoreResult = "ErrChunkDirNotFound"
          /\ chunksOpened = 0
          /\ restoreProgress = <<>>
          /\ outFile.exists /\ outFile.data = <<>> /\ outBuf = <<>>
    /\ restoreResult = "ErrChunkDirNotFound" => ~dirExists

C6_Witness ==
    /\ pc = "restore_done" /\ ~dirExists
    /\ tamper.kind = "rmdir"
    /\ Len(Unwrap(file_info).chunks) >= 2
    /\ message_callback
    /\ messages[Len(messages)] = "Restoring"

\* Every chunk file the SplitInfo lists can be opened and decoded.
AllChunksDecodable(info) ==
    \A k \in 1..Len(info.chunks) :
        /\ info.chunks[k].chunk_filename \in DOMAIN chunkFiles
        /\ DecodeChunk(chunkFiles[info.chunks[k].chunk_filename], info.is_compressed).ok

RECURSIVE ConcatPlain(_, _, _)
ConcatPlain(chunks, k, is_compressed) ==
    IF k = 0 THEN <<>>
    ELSE ConcatPlain(chunks, k - 1, is_compressed) \o PlainOf(chunks[k], is_compressed)

\* C7: with the chunk directory present and every listed chunk file
\* readable and decodable, restore returns an error exactly when the size of
\* the written output differs from original_file_size, and that error is the
\* size mismatch; the bytes written are the decoded chunks in manifest order
\* whatever the checksums say.
C7_SizeFatalChecksumNot ==
    (pc = "restore_done" /\ dirExists /\ AllChunksDecodable(Unwrap(file_info))) =>
        LET info == Unwrap(file_info)
        IN  /\ (restoreResult # "Ok") <=> (Len(outFile.data) # info.original_file_size)
            /\ restoreResult \in {"Ok", "ErrSizeMismatch"}
            /\ outFile.data = ConcatPlain(info.chunks, Len(info.chunks), info.is_compressed)
            /\ chunksOpened = Len(info.chunks)

\* A restore from the manifest of an earlier split call, after a later call
\* has overwritten chunk files and failed: it printed chunk warnings and
\* the whole-file warning and returned Ok.
C7_Witness ==
    /\ pc = "restore_done" /\ dirExists /\ AllChunksDecodable(Unwrap(file_info))
    /\ splitCalls > 1 /\ splitResult = "ErrSizeMismatch"
    /\ restoreResult = "Ok"
    /\ Len(warnings) >= 3
    /\ warnings[Len(warnings)] = "original"

\* A byte of one chunk file that the manifest lists was changed after a
\* successful split, and restore has returned.
RestoredAfterMutation ==
    /\ pc = "restore_done" /\ splitResult = "Ok" /\ tamper.kind = "mutate"
    /\ \E k \in 1..Len(Unwrap(file_info).chunks) :
           Unwrap(file_info).chunks[k].chunk_filename = tamper.name

WarnedAbout(name) == \E i \in 1..Len(warnings) : warnings[i] = name

\* C8 as stated: compressed or not, the mutated chunk gets a checksum
\* warning, restore returns Ok, and the output has original_file_size bytes.
C8_AsStated ==
    RestoredAfterMutation =>
        /\ WarnedAbout(tamper.name)
        /\ restoreResult = "Ok"
        /\ Len(outFile.data) = Unwrap(file_info).original_file_size

\* C8, amended: after a successful split with compress = false, the
\* mutated chunk gets a checksum warning, restore returns Ok, and the output
\* has original_file_size bytes.
C8_CorruptionNonFatal ==
    (RestoredAfterMutation /\ ~compress) =>
        /\ WarnedAbout(tamper.name)
        /\ restoreResult = "Ok"
        /\ Len(outFile.data) = Unwrap(file_info).original_file_size
        /\ outFile.data # src

C8_Witness ==
    /\ RestoredAfterMutation /\ ~compress
    /\ WarnedAbout(tamper.name)
    /\ Len(Unwrap(file_info).chunks) >= 2
    /\ restoreResult = "Ok"

\* C9: split called with chunk_limit = 0 ends, with an error, and writes no
\* manifest, whatever the source file.
C9_ZeroLimitRejected ==
    /\ (size_limit = 0 /\ pc = "split_loop") => chunk_index = 0
    /\ (size_limit = 0 /\ pc = "split_done") =>
          /\ splitResult # "Ok"
          /\ manifestWrites = 0
          /\ manifestFile = None

\* C10: in the manifest of a split that returned Ok every chunk record has
\* a checksum, and it is the digest of the chunk's plaintext bytes: of the
\* chunk file's decoded content, and of the empty buffer for the one record
\* that has no file; when compressed it is not the digest of the bytes on
\* disk.
C10_ChecksumOfPlaintext ==
    SplitReturnedOk =>
        \A k \in 1..Len(Manifest.chunks) :
            LET rec == Manifest.chunks[k]
                c == rec.chunk_checksum
            IN  /\ c.json = "string"
                /\ IF rec.chunk_filename \in DOMAIN chunkFiles
                   THEN LET file == chunkFiles[rec.chunk_filename]
                            dec == DecodeChunk(file, Manifest.is_compressed)
                        IN  /\ dec.ok
                            /\ c.value = calculate_buffer_checksum(dec.data)
                            /\ Manifest.is_compressed =>
                                   c.value # calculate_buffer_checksum(file)
                   ELSE /\ Len(src) = 0
                        /\ c.value = calculate_buffer_checksum(<<>>)

C10_Witness ==
    /\ SplitReturnedOk /\ compress
    /\ Len(Manifest.chunks) >= 2
    /\ \A k \in 1..Len(Manifest.chunks) :
           Manifest.chunks[k].chunk_filename \in DOMAIN chunkFiles

\* C11: a split call and a restore call give the same return value and the
\* same files whether both hooks are supplied or both are absent: what either
\* run returns and leaves on disk is what the call without hooks computes
\* from the same inputs.
C11_HooksDoNotChangeOutcome ==
    /\ pc = "split_done" =>
          [result |-> splitResult, files |-> chunkFiles, manifest |-> manifestFile]
              = SplitNoHooks(src, size_limit, compress,
                             diskBefore.files, diskBefore.manifest)
    /\ pc = "restore_done" =>
          [result |-> restoreResult, output |-> outFile.data]
              = RestoreNoHooks(Unwrap(file_info), chunkFiles, dirExists)

\* A run with both hooks supplied that was notified and returned Ok from a
\* restore of several chunks: the run the hook-free computation is compared
\* with.
C11_Witness ==
    /\ pc = "restore_done" /\ restoreResult = "Ok"
    /\ progress_callback /\ message_callback
    /\ Len(progress) >= 2 /\ Len(restoreProgress) >= 2 /\ Len(messages) >= 5
    /\ [result |-> restoreResult, output |-> outFile.data]
           = RestoreNoHooks(Unwrap(file_info), chunkFiles, dirExists)

\* C12: in a split with a progress hook, every chunk record has its own
\* progress call, made before the next read, carrying the plaintext bytes
\* processed through that chunk and the original file size; the bytes_done
\* values never decrease, and the last call of a split that returns Ok
\* carries bytes_done = bytes_total.
C12_ProgressPerChunk ==
    (progress_callback /\ pc \in {"split_loop", "split_verify", "split_save", "split_done"}) =>
        /\ Len(progress) = Len(chunks_info)
        /\ \A k \in 1..Len(progress) :
               /\ k <= Len(chunks_info)
               /\ progress[k] = <<SumPlainLen(chunks_info, k, compress), Len(src)>>
        /\ \A k \in 2..Len(progress) : progress[k - 1][1] <= progress[k][1]
        /\ splitResult = "Ok" =>
               /\ progress # <<>>
               /\ progress[Len(progress)][1] = progress[Len(progress)][2]

\* Decimal rendering of a natural number, digit by digit.
DigitChars == <<"0", "1", "2", "3", "4", "5", "6", "7", "8", "9">>

RECURSIVE Decimal(_)
Decimal(n) ==
    IF n < 10 THEN DigitChars[n + 1]
    ELSE Decimal(n \div 10) \o DigitChars[(n % 10) + 1]

\* <basename>-<k>: k in decimal, with leading zeros up to three digits and
\* every digit of a longer k.
ExpectedChunkName(basename, k) ==
    basename \o "-" \o
        (IF k < 10 THEN "00" ELSE IF k < 100 THEN "0" ELSE "") \o Decimal(k)

\* C13: in the manifest a split wrote, the k-th chunk record is named
\* <basename>-<k> with k zero-padded to three digits and written in full
\* beyond 999; the names are pairwise distinct, chunks_sub_dir is
\* <basename>_parts, and every chunk file written is one of these names in
\* that directory.
C13_ChunkNaming ==
    SplitReturnedOk =>
        LET names == {Manifest.chunks[k].chunk_filename : k \in 1..Len(Manifest.chunks)}
        IN  /\ \A k \in 1..Len(Manifest.chunks) :
                   Manifest.chunks[k].chunk_filename
                       = ExpectedChunkName(Manifest.original_filename, k)
            /\ Cardinality(names) = Len(Manifest.chunks)
            /\ Manifest.chunks_sub_dir = Manifest.original_filename \o "_parts"
            /\ dirExists
            /\ DOMAIN chunkFiles \subseteq names

C13_Witness ==
    /\ SplitReturnedOk /\ compress
    /\ Len(Manifest.chunks) > 999
    /\ Manifest.chunks[1000].chunk_filename = "f-1000"
    /\ Manifest.chunks[7].chunk_filename = "f-007"

\* The chunk file of record k can be opened and decoded.
ChunkReadable(info, k) ==
    /\ info.chunks[k].chunk_filename \in DOMAIN chunkFiles
    /\ DecodeChunk(chunkFiles[info.chunks[k].chunk_filename], info.is_compressed).ok

\* Index of the first record whose chunk file is not readable, 0 if all are.
FirstUnreadable(info) ==
    LET bad == {k \in 1..Len(info.chunks) : ~ChunkReadable(info, k)}
    IN  IF bad = {} THEN 0 ELSE CHOOSE k \in bad : \A j \in bad : k <= j

Emitted(text) == \E i \in 1..Len(messages) : messages[i] = text

\* C14: with the chunk directory present, restore returns an open or decode
\* error exactly when some listed chunk file cannot be opened or decoded; it
\* then stopped at the first such record j, the output file holds exactly
\* the decoded bytes of records 1..j-1 in manifest order, nothing of record
\* j or later was written or reported, and neither the size check nor the
\* whole-file checksum check ran.
C14_UnreadableChunkFatal ==
    (pc = "restore_done" /\ dirExists) =>
        LET info == Unwrap(file_info)
            j == FirstUnreadable(info)
        IN  /\ (j > 0) <=> (restoreResult \in {"ErrOpenChunk", "ErrDecode"})
            /\ j > 0 =>
                  /\ restoreResult =
                         IF info.chunks[j].chunk_filename \in DOMAIN chunkFiles
                         THEN "ErrDecode" ELSE "ErrOpenChunk"
                  /\ chunk_pos = j
                  /\ outFile.exists /\ outBuf = <<>>
                  /\ outFile.data = ConcatPlain(info.chunks, j - 1, info.is_compressed)
                  /\ total_written = Len(outFile.data)
                  /\ progress_callback => Len(restoreProgress) = j - 1
                  /\ ~Emitted("restoration complete")
                  /\ ~WarnedAbout("original")

\* Restore failed at the second record after writing the first chunk.
C14_Witness ==
    /\ pc = "restore_done" /\ dirExists
    /\ restoreResult = "ErrDecode"
    /\ chunk_pos = 2
    /\ outFile.data # <<>>
    /\ Len(outFile.data) < Unwrap(file_info).original_file_size

\* C15: with chunk_limit > 0, a chunk shorter than chunk_limit is the last
\* one, it is recorded and the loop stops, and it is read only when the whole
\* source has been read; every earlier chunk has exactly chunk_limit
\* plaintext bytes, and the split does not end in the size-mismatch error.
C15_ShortReadOnlyAtEnd ==
    (size_limit > 0 /\ pc \in {"split_loop", "split_verify", "split_save", "split_done"}) =>
        /\ \A k \in 1..Len(chunks_info) :
               LET n == Len(PlainOf(chunks_info[k], compress))
               IN  /\ k < Len(chunks_info) => n = size_limit
                   /\ (0 < n /\ n < size_limit) =>
                          /\ k = Len(chunks_info)
                          /\ pc # "split_loop"
                          /\ total_bytes_processed = Len(src)
        /\ splitResult # "ErrSizeMismatch"

\* C16: when split has returned Ok, every chunk record of the manifest, the
\* zero-length record of an empty source included, names a chunk file that
\* exists and decodes, so restore can open every chunk the manifest lists.
C16_EveryRecordHasFile ==
    SplitReturnedOk =>
        \A k \in 1..Len(Manifest.chunks) :
            LET rec == Manifest.chunks[k]
            IN  /\ rec.chunk_filename \in DOMAIN chunkFiles
                /\ DecodeChunk(chunkFiles[rec.chunk_filename], Manifest.is_compressed).ok
                /\ Len(chunkFiles[rec.chunk_filename]) = rec.chunk_size

\* C17 as stated: "splitting complete" is emitted only in a split call that
\* returns Ok and "restoration complete" only in a restore call that returns
\* Ok.
C17_AsStated ==
    /\ (pc = "split_done" /\ Emitted("splitting complete")) => splitResult = "Ok"
    /\ (pc = "restore_done" /\ Emitted("restoration complete")) => restoreResult = "Ok"

TimesEmitted(text) == Cardinality({i \in 1..Len(messages) : messages[i] = text})

\* C17, amended: with a message hook, "splitting complete" is emitted once,
\* when the read loop has ended and before the size check, so in every split
\* call that returns Ok or the size-mismatch error; "restoration complete"
\* is emitted at most once, after the last chunk was written and before the
\* size check, so in every restore call that returns Ok or the
\* size-mismatch error and in none that ends with a missing chunk directory
\* or an unreadable chunk.
C17_CompletionMessage ==
    message_callback =>
        /\ pc \in {"split_open", "split_loop", "split_verify"} =>
               ~Emitted("splitting complete")
        /\ pc = "split_done" =>
               /\ splitResult \in {"Ok", "ErrSizeMismatch"}
               /\ TimesEmitted("splitting complete") = 1
        /\ pc # "restore_done" => ~Emitted("restoration complete")
        /\ pc = "restore_done" =>
               /\ restoreResult \in {"Ok", "ErrSizeMismatch"} =>
                      Emitted("restoration complete")
               /\ restoreResult \in {"ErrChunkDirNotFound", "ErrOpenChunk", "ErrDecode"} =>
                      ~Emitted("restoration complete")
               /\ TimesEmitted("restoration complete") <= 1

\* A restore that announced completion and then failed the size check.
C17_Witness ==
    /\ message_callback
    /\ pc = "restore_done" /\ restoreResult = "ErrSizeMismatch"
    /\ messages[Len(messages)] = "restoration complete"
    /\ Emitted("splitting complete")

\* The chunk file a manifest record names exists and decodes to bytes whose
\* digest is the recorded chunk_checksum.
RecordMatchesDisk(rec, is_compressed) ==
    /\ rec.chunk_filename \in DOMAIN chunkFiles
    /\ LET dec == DecodeChunk(chunkFiles[rec.chunk_filename], is_compressed)
       IN  /\ dec.ok
           /\ rec.chunk_checksum.json = "string"
           /\ rec.chunk_checksum.value = calculate_buffer_checksum(dec.data)

\* C18: after any sequence of split calls on the same source file and output
\* root, whatever their results, chunk limits and compress values, a manifest
\* that exists lists only chunk files that exist and whose decoded content
\* has the recorded checksum.
C18_ManifestMatchesDisk ==
    (pc = "split_done" /\ IsSome(manifestFile)) =>
        \A k \in 1..Len(Manifest.chunks) :
            RecordMatchesDisk(Manifest.chunks[k], Manifest.is_compressed)

\* The last sentence of C18 alone: a split call that failed did not
\* overwrite a chunk file that the manifest of an earlier call lists.
C18_FailedSplitKeepsChunks ==
    (pc = "split_done" /\ splitResult = "ErrSizeMismatch" /\ IsSome(manifestFile)) =>
        \A k \in 1..Len(Manifest.chunks) :
            Manifest.chunks[k].chunk_filename \in DOMAIN chunkFiles =>
                RecordMatchesDisk(Manifest.chunks[k], Manifest.is_compressed)

TerminalsSent(w) ==
    Cardinality({i \in 1..Len(sent[w]) : sent[w][i] \in TerminalKinds})

\* The terminal message of the latest operation has been received by the UI
\* thread.
TerminalReceived ==
    /\ started > 0
    /\ HasTerminal(sent[started])
    /\ ~HasTerminal(rx)

\* The safety part of C19: a worker that has ended sent exactly one terminal
\* message, as its last message, and a running one none; no worker panicked;
\* is_processing is true from the start of an operation until the UI thread
\* has received its terminal message and false otherwise; at most one
\* worker runs.
C19_ProtocolSafety ==
    /\ \A w \in 1..started :
           /\ worker[w] \in {"running", "notified", "finished"}
           /\ worker[w] \in {"running", "notified"} => TerminalsSent(w) = 0
           /\ worker[w] = "finished" =>
                  /\ TerminalsSent(w) = 1
                  /\ sent[w][Len(sent[w])] \in TerminalKinds
    /\ is_processing <=> (started > 0 /\ ~TerminalReceived)
    /\ Cardinality({w \in 1..started : worker[w] \in {"running", "notified"}}) <= 1

\* C19: each operation started from the window runs in one worker that sends
\* exactly one terminal message, last; is_processing is true from the start
\* until the UI thread receives that message and false afterwards; no two
\* workers run at the same time; and every started operation eventually
\* re-enables the Start buttons.
C19_SingleOperationProtocol ==
    /\ []C19_ProtocolSafety
    /\ (is_processing ~> ButtonEnabled(is_processing))

====
